---- MODULE Spec2Model ----
(***************************************************************************)
(* State-machine model of the AviiMaui avatar pipeline: the Live2D viewer  *)
(* (model loading, face-data sink, hit dispatch), the viewport and drag    *)
(* state machine, the container-based viewer's zoom handlers and the       *)
(* command channel of the native bridge.                                   *)
(*                                                                         *)
(* Numbers that are floats in the program are fixed-point integers here:   *)
(* smoothed parameters in units of 1/Unit, view scale in hundredths, zoom  *)
(* in thousandths. NaN and Infinity are explicit values where the code can *)
(* produce them.                                                           *)
(***************************************************************************)
EXTENDS Integers, Sequences, FiniteSets, TLC

\* ------------------------------------------------------------ bounds
MaxLoads == 3
MaxFrames == 3
MaxHits == 1
MaxGestures == 2
MaxWheel == 3
MaxContainerSteps == 4
MaxCalls == 2
MaxHookCalls == 3
MaxEvents == 3
MaxSessions == 3
MaxCaptured == 3
MaxHomeFrames == 3
MaxSteady == 7
MaxStreams == 2
MaxRaf == 3
MaxWebStarts == 2
MaxResults == 2
MaxToggles == 4
MaxSets == 2
MaxSettingsLoads == 1

\* ------------------------------------------------------------ constants
Unit == 10000000
AngleScaleTenths == 25
LerpFactorTenths == 3
DRAG_THRESHOLD_PX == 4
DEFAULT_MIN_SCALE == 5
DEFAULT_MAX_SCALE == 200
DEFAULT_ZOOM_STEP == 5

Abs(x) == IF x < 0 THEN -x ELSE x

VARIABLES
  op,          \* name of the handler that ran last
  mounted,     \* the viewer component is mounted
  appRef,      \* "null" | "app"
  initPc,      \* initRenderer: "pending" | "done"
  modelUrl,    \* the modelUrl prop
  loads,       \* load tasks: [pc, url, cancelled], one per load effect run
  nextTask,    \* index of the next load task
  handle,      \* per task: state of the model object Live2DModel.from creates
  stage,       \* handles attached to app.stage
  modelRef,    \* 0 (null) or the handle modelRef.current points to
  cbs,         \* per task: callback the viewer made for it
  initErr,     \* initRenderer reported an error through onError
  paramsRef,   \* smoothed parameter state
  lastWrite,   \* the renderer writes of the last updateFaceData call
  tracking,    \* the tracking source is producing frames
  nframes,     \* frames delivered so far
  lastHit,     \* hit areas of the last hit callback
  lastMotions, \* motions dispatched by the last hit callback
  nhits,
  props,        \* the viewer's scale, rotation, offset and enable props
  viewScale,    \* useState viewScale (hundredths)
  viewOffset,   \* useState viewOffset (px)
  transformRef, \* transformRef.current
  dragState,    \* dragStateRef.current
  ptr,          \* position and target of the last pointer or wheel event
  modelXf,      \* scale, rotation, x, y of the model modelRef points to
  screen,       \* app.screen size
  ngest,        \* pointer-down events so far
  nwheel,       \* wheel events so far
  zoomRef,      \* container viewer: zoomRef.current (thousandths, or NaN)
  panRef,       \* container viewer: panRef.current
  isDraggingRef,
  lastTouchRef, \* null, or the last mouse or touch position
  lastTouchDistanceRef, \* null, or the last distance of two touches
  viewport,     \* container viewer: scale and position of the viewport
  csteps,       \* container viewer: events so far
  hwv,          \* window.HybridWebView
  call,         \* the command in flight, or the last one
  res,          \* the Result the last command resolved with
  lastRaw,      \* what InvokeDotNet resolved with for the last command
  invoked,      \* calls of hwv.InvokeDotNet so far
  ncalls,       \* commands so far
  stalled,      \* the promise of the call in flight will never settle
  isAvailable,  \* useNativeFaceTracking: isAvailable
  isTracking,   \* useNativeFaceTracking: isTracking
  error,        \* useNativeFaceTracking: error (null, a string, a number)
  hookPending,  \* useNativeFaceTracking: methods awaiting InvokeDotNet
  nhook,        \* useNativeFaceTracking: calls of its three functions so far
  lastMsg,      \* the last HybridWebViewMessageReceived event's detail.message
  consumed,     \* whether handleMessage called onData for that event
  nanParams,    \* the fields of paramsRef.current that hold NaN
  nevents,      \* events so far
  platform,     \* native side: iOS with face tracking, iOS without, not iOS
  faceTrackingService, \* MauiBridge._faceTrackingService is not null
  IsTracking,   \* FaceTrackingService.IsTracking
  arSession,    \* FaceTrackingService._arSession: 0 for null, or the session
  sessionsCreated, \* ARSession objects constructed so far
  alive,        \* the sessions that were Run and not Paused since
  requesting,   \* StartTrackingAsync calls awaiting the permission answer
  startReply,   \* what the last finished StartFaceTracking call returned
  lastAnswer,   \* the permission answer and Run outcome of the last resumed start
  stopRequested, \* StopFaceTracking was called and StartFaceTracking not since
  webView,      \* MauiBridge._webView is not null
  captured,     \* frames the capture session produced so far
  mainQueue,    \* frames handed to the main thread and not yet sent
  sent,         \* frames sent to the web view, in order
  homeModel,    \* Home page: whether modelRef.current is set, and its x, y
  homeScreen,   \* Home page: appRef.current.screen
  homeParams,   \* Home page: currentParamsRef.current
  homeData,     \* Home page: the frame of the last applyFaceData call
  nhome,        \* Home page: applyFaceData calls so far
  anchor,       \* the face anchor of the last ProcessFaceAnchor call
  faceData,     \* the FaceTrackingData that call raised, or NoFaceData
  steady,       \* a stream repeating one frame: the frame, the factor, the
                \* smoothed state it started from
  nsteady,      \* frames of that stream delivered so far
  nstreams,     \* such streams so far
  faceLandmarkerRef, \* useFaceTracking: faceLandmarkerRef.current is set
  animationFrameRef, \* useFaceTracking: animationFrameRef.current, 0 for null
  rafPending,   \* requestAnimationFrame callbacks of detect not yet run
  rafIssued,    \* requestAnimationFrame ids handed out so far
  srcObject,    \* videoRef.current.srcObject: 0 for null, or the stream
  streamsIssued, \* camera streams getUserMedia resolved with so far
  liveStreams,  \* camera streams whose tracks were not stopped
  webIsTracking, \* useFaceTracking: isTracking
  webError,     \* useFaceTracking: error is set
  acquiring,    \* startTracking calls awaiting getUserMedia
  playing,      \* startTracking calls awaiting video.play()
  stopReturned, \* stopTracking returned and startTracking was not called since
  nresults,     \* onResult calls so far
  nwebstarts,   \* startTracking calls so far
  trackingMode, \* Home page: trackingMode
  togglePc,     \* Home page: where the toggle in flight is waiting, or "idle"
  ntoggles,     \* Home page: toggles so far
  settings,     \* settings store: the value of each setting
  preferences,  \* native preferences: the stored string of each key, or null
  loadPc,       \* loadSettings: "idle" or "awaiting" its Promise.all
  reads,        \* loadSettings: what each getStringValue resolved with so far
  writes,       \* setStringValue calls not yet served by the native side
  setDuring,    \* the value a setter gave a setting since loadSettings began
                \* awaiting, if one ran while it was awaiting
  nsets,        \* setter calls so far
  nsettingsLoads \* loadSettings calls so far

viewerVars == <<mounted, appRef, initPc, modelUrl, loads, nextTask, handle,
                stage, modelRef, cbs, initErr>>
sinkVars == <<paramsRef, lastWrite, tracking, nframes>>
hitVars == <<lastHit, lastMotions, nhits>>

viewportVars == <<props, viewScale, viewOffset, transformRef, dragState, ptr,
                  ngest, nwheel>>
layoutVars == <<modelXf, screen>>

containerVars == <<zoomRef, panRef, isDraggingRef, lastTouchRef,
                   lastTouchDistanceRef, viewport, csteps>>

bridgeVars == <<hwv, call, res, lastRaw, invoked, ncalls, stalled>>
hookVars == <<isAvailable, isTracking, error, hookPending, nhook>>
eventVars == <<lastMsg, consumed, nanParams, nevents>>
nativeVars == <<platform, faceTrackingService, IsTracking, arSession,
                sessionsCreated, alive, requesting, startReply, lastAnswer,
                stopRequested, webView, captured, mainQueue, sent>>
homeVars == <<homeModel, homeScreen, homeParams, homeData, nhome>>
anchorVars == <<anchor, faceData>>
steadyVars == <<steady, nsteady, nstreams>>
cameraVars == <<faceLandmarkerRef, animationFrameRef, rafPending, rafIssued,
                srcObject, streamsIssued, liveStreams, webIsTracking, webError,
                acquiring, playing, stopReturned, nresults, nwebstarts>>
dualVars == <<trackingMode, togglePc, ntoggles>>
settingsVars == <<settings, preferences, loadPc, reads, writes, setDuring,
                  nsets, nsettingsLoads>>

vars == <<op, viewerVars, sinkVars, hitVars, viewportVars, layoutVars,
          containerVars, bridgeVars, hookVars, eventVars, nativeVars,
          homeVars, anchorVars, steadyVars, cameraVars, dualVars,
          settingsVars>>

\* ------------------------------------------------------------ data
Tasks == 1..MaxLoads

Urls == {"hiyori", "legacy"}

ParamIds == <<"ParamAngleX", "ParamAngleY", "ParamAngleZ", "ParamEyeLOpen",
              "ParamEyeROpen", "ParamEyeBallX", "ParamEyeBallY",
              "ParamMouthOpenY">>

AllParamIds == {ParamIds[i] : i \in 1..Len(ParamIds)}

\* The parameters a rig has; a write to any other id fails.
RigParams(url) ==
  IF url = "hiyori" THEN AllParamIds
  ELSE AllParamIds \ {"ParamAngleZ", "ParamEyeBallX"}

DefaultParams ==
  [angleX |-> 0, angleY |-> 0, angleZ |-> 0, eyeOpenL |-> Unit,
   eyeOpenR |-> Unit, eyeBallX |-> 0, eyeBallY |-> 0, mouthOpen |-> 0]

\* Frames of the tracking source (angles in degrees, the rest in [0,1] or
\* [-1,1]), all in units of 1/Unit.
Frames ==
  { [angleX |-> 0, angleY |-> 0, angleZ |-> 0, eyeOpenL |-> Unit,
     eyeOpenR |-> Unit, eyeBallX |-> 0, eyeBallY |-> 0, mouthOpen |-> Unit],
    [angleX |-> 4 * Unit, angleY |-> -2 * Unit, angleZ |-> 0, eyeOpenL |-> 0,
     eyeOpenR |-> Unit, eyeBallX |-> Unit \div 2, eyeBallY |-> 0,
     mouthOpen |-> 0] }

NoWrite == [target |-> 0, ids |-> {}]

\* lerp that always goes half of the way.
lerpHalfWay(current, target, factorTenths) ==
  current + (target - current) \div 2

lerp(current, target, factorTenths) ==
  current + ((target - current) * factorTenths) \div 10

\* ------------------------------------------------------------ viewport data
Min(a, b) == IF a < b THEN a ELSE b
Max(a, b) == IF a > b THEN a ELSE b

\* Baselines the page supplies through the scale, rotation and offset props.
Baselines ==
  { [scale |-> 15, rotation |-> 0, x |-> 0, y |-> 0],
    [scale |-> 210, rotation |-> 90, x |-> 10, y |-> -2] }

\* Pointer positions (clientX, clientY).
Points == { [x |-> 0, y |-> 0], [x |-> 3, y |-> 0], [x |-> 3, y |-> 1],
            [x |-> 5, y |-> 0] }

ScreenSizes == { [w |-> 400, h |-> 800], [w |-> 800, h |-> 400] }

\* A model as Live2DModel.from returns it, before applyTransforms.
NoXf == [scale |-> 100, rotation |-> 0, x |-> 0, y |-> 0]

\* rotation * Math.PI / 180, in units of 1e-4 rad.
DegToRad(deg) == (deg * 31416) \div 180

\* applyTransforms: the model's scale, rotation and position afterwards.
ApplyTransforms(model, app, tr, scr, xf) ==
  IF model = 0 THEN xf
  ELSE IF app = "null"
    THEN [xf EXCEPT !.scale = tr.scale, !.rotation = DegToRad(tr.rotation)]
    ELSE [scale |-> tr.scale, rotation |-> DegToRad(tr.rotation),
          x |-> scr.w \div 2 + tr.x, y |-> scr.h \div 2 + tr.y]

IdleDrag == [active |-> FALSE, startX |-> 0, startY |-> 0, baseX |-> 0,
             baseY |-> 0, moved |-> FALSE]

InitViewport ==
  /\ props = [scale |-> 15, rotation |-> 0, offsetX |-> 0, offsetY |-> 0,
              enablePan |-> TRUE, enableZoom |-> TRUE]
  /\ viewScale = 15
  /\ viewOffset = [x |-> 0, y |-> 0]
  /\ transformRef = [scale |-> 15, rotation |-> 0, x |-> 0, y |-> 0]
  /\ dragState = IdleDrag
  /\ ptr = [x |-> 0, y |-> 0, controls |-> FALSE]
  /\ ngest = 0
  /\ nwheel = 0

InitLayout ==
  /\ modelXf = NoXf
  /\ screen = [w |-> 400, h |-> 800]

\* ------------------------------------------------------------ container viewer data
\* A JavaScript number of the zoom computation: finite (thousandths), NaN or
\* Infinity.
Num(v) == [kind |-> "num", v |-> v]
NaN == [kind |-> "nan", v |-> 0]
Infinity == [kind |-> "inf", v |-> 0]

Null == [kind |-> "null"]
Pos(x, y) == [kind |-> "pos", x |-> x, y |-> y]
Dist(d) == [kind |-> "dist", d |-> d]

\* Math.sqrt on the squares the touch sets produce.
Sqrt(n) == CHOOSE r \in 0..n : r * r <= n /\ n < (r + 1) * (r + 1)

\* e.touches of a touch event: one or two touch points, or three.
TouchLists ==
  { <<[x |-> 0, y |-> 0]>>, <<[x |-> 3, y |-> 4]>>,
    <<[x |-> 0, y |-> 0], [x |-> 0, y |-> 0]>>,
    <<[x |-> 0, y |-> 0], [x |-> 3, y |-> 4]>>,
    <<[x |-> 0, y |-> 0], [x |-> 6, y |-> 8]>>,
    <<[x |-> 0, y |-> 0], [x |-> 3, y |-> 4], [x |-> 6, y |-> 8]>> }

MousePoints == { [x |-> 0, y |-> 0], [x |-> 3, y |-> 4] }

TouchDistance(t) ==
  Sqrt((t[2].x - t[1].x) * (t[2].x - t[1].x)
       + (t[2].y - t[1].y) * (t[2].y - t[1].y))

InitContainer ==
  /\ zoomRef = Num(1000)
  /\ panRef = [x |-> 0, y |-> 0]
  /\ isDraggingRef = FALSE
  /\ lastTouchRef = Null
  /\ lastTouchDistanceRef = Null
  /\ viewport = [scale |-> Num(1000), x |-> 200, y |-> 400]
  /\ csteps = 0

\* ------------------------------------------------------------ initial state
\* The state after the first render and its effects: initRenderer is awaiting
\* its import, the load effect is awaiting initPromiseRef.
NoTask == [pc |-> "unused", url |-> "", cancelled |-> FALSE]

InitViewer ==
  /\ mounted = TRUE
  /\ appRef = "null"
  /\ initPc = "pending"
  /\ modelUrl = "hiyori"
  /\ loads = [t \in Tasks |->
                IF t = 1
                  THEN [pc |-> "awaitInit", url |-> "hiyori", cancelled |-> FALSE]
                  ELSE NoTask]
  /\ nextTask = 2
  /\ handle = [t \in Tasks |-> "none"]
  /\ stage = {}
  /\ modelRef = 0
  /\ cbs = [t \in Tasks |-> "none"]
  /\ initErr = FALSE

InitSink ==
  /\ paramsRef = DefaultParams
  /\ lastWrite = NoWrite
  /\ tracking = FALSE
  /\ nframes = 0

InitHit ==
  /\ lastHit = <<>>
  /\ lastMotions = <<>>
  /\ nhits = 0

\* ------------------------------------------------------------ renderer init
\* initRenderer after its await: the import resolved (ok) or rejected.
InitRendererDone(ok) ==
  /\ initPc = "pending"
  /\ initPc' = "done"
  /\ appRef' = IF ok THEN "app" ELSE appRef
  \* unmounted: containerRef.current is null and appendChild throws
  /\ initErr' = (~ok \/ ~mounted)
  /\ op' = "initRenderer"
  /\ UNCHANGED <<mounted, modelUrl, loads, nextTask, handle, stage, modelRef,
                 cbs, sinkVars, hitVars, viewportVars, layoutVars, containerVars, bridgeVars,
                 hookVars, eventVars, nativeVars, homeVars, anchorVars,
                 steadyVars, cameraVars, dualVars, settingsVars>>

\* ------------------------------------------------------------ model loading
Finish(t) == [loads EXCEPT ![t].pc = "done"]

\* load() resumes after `await initPromiseRef.current` and calls loadModel,
\* which runs up to its `await import(...)`.
LoadAfterInit(t) ==
  /\ loads[t].pc = "awaitInit"
  /\ initPc = "done"
  /\ loads' = IF loads[t].cancelled \/ appRef = "null"
                THEN Finish(t)
                ELSE [loads EXCEPT ![t].pc = "awaitImport"]
  /\ op' = "loadAfterInit"
  /\ UNCHANGED <<mounted, appRef, initPc, modelUrl, nextTask, handle, stage,
                 modelRef, cbs, initErr, sinkVars, hitVars, viewportVars, layoutVars, containerVars, bridgeVars,
                 hookVars, eventVars, nativeVars, homeVars, anchorVars,
                 steadyVars, cameraVars, dualVars, settingsVars>>

\* `modelRef.current = null` after the old model was destroyed.
ClearedRefStale(old) == old

ClearedRef(old) == 0

\* loadModel between its two awaits: destroy the old model, call
\* Live2DModel.from(url).
LoadImported(t) ==
  /\ loads[t].pc = "awaitImport"
  /\ IF modelRef # 0 /\ appRef = "null"
       THEN \* appRef.current.stage throws; caught, reported through onError
            /\ loads' = Finish(t)
            /\ cbs' = [cbs EXCEPT ![t] = "onError"]
            /\ UNCHANGED <<handle, stage, modelRef, modelXf>>
       ELSE /\ loads' = [loads EXCEPT ![t].pc = "awaitFrom"]
            /\ handle' = [h \in Tasks |->
                            IF h = t THEN "loading"
                            ELSE IF h = modelRef THEN "destroyed"
                            ELSE handle[h]]
            /\ stage' = stage \ {modelRef}
            /\ modelRef' = ClearedRef(modelRef)
            /\ modelXf' = NoXf
            /\ UNCHANGED cbs
  /\ op' = "loadImported"
  /\ UNCHANGED <<mounted, appRef, initPc, modelUrl, nextTask, initErr,
                 sinkVars, hitVars, viewportVars, screen, containerVars, bridgeVars,
                 hookVars, eventVars, nativeVars, homeVars, anchorVars,
                 steadyVars, cameraVars, dualVars, settingsVars>>

\* loadModel after `await Live2DModel.from(url)` resolved: install the model.
LoadResolved(t) ==
  /\ loads[t].pc = "awaitFrom"
  /\ loads' = Finish(t)
  /\ handle' = [handle EXCEPT ![t] = "live"]
  /\ modelRef' = t
  /\ IF appRef = "null"
       THEN \* appRef.current.stage.addChild throws; caught
            /\ cbs' = [cbs EXCEPT ![t] = "onError"]
            /\ modelXf' = NoXf
            /\ UNCHANGED stage
       ELSE /\ stage' = stage \cup {t}
            /\ modelXf' = ApplyTransforms(t, appRef, transformRef, screen, NoXf)
            /\ cbs' = [cbs EXCEPT ![t] = "onLoad"]
  /\ op' = "loadResolved"
  /\ UNCHANGED <<mounted, appRef, initPc, modelUrl, nextTask, initErr,
                 sinkVars, hitVars, viewportVars, screen, containerVars, bridgeVars,
                 hookVars, eventVars, nativeVars, homeVars, anchorVars,
                 steadyVars, cameraVars, dualVars, settingsVars>>

\* Live2DModel.from(url) rejected; onError only for an Error instance.
LoadRejected(t, isError) ==
  /\ loads[t].pc = "awaitFrom"
  /\ loads' = Finish(t)
  /\ handle' = [handle EXCEPT ![t] = "failed"]
  /\ cbs' = [cbs EXCEPT ![t] = IF isError THEN "onError" ELSE "none"]
  /\ op' = "loadRejected"
  /\ UNCHANGED <<mounted, appRef, initPc, modelUrl, nextTask, stage, modelRef,
                 initErr, sinkVars, hitVars, viewportVars, layoutVars, containerVars, bridgeVars,
                 hookVars, eventVars, nativeVars, homeVars, anchorVars,
                 steadyVars, cameraVars, dualVars, settingsVars>>

\* The modelUrl prop changes: the load effect's cleanup cancels the previous
\* run and a new run starts.
ChangeModelUrl(u) ==
  /\ mounted
  /\ u # modelUrl
  /\ nextTask <= MaxLoads
  /\ modelUrl' = u
  /\ loads' = [t \in Tasks |->
                 IF t = nextTask
                   THEN [pc |-> "awaitInit", url |-> u, cancelled |-> FALSE]
                 ELSE IF t = nextTask - 1
                   THEN [loads[t] EXCEPT !.cancelled = TRUE]
                 ELSE loads[t]]
  /\ nextTask' = nextTask + 1
  /\ op' = "changeModelUrl"
  /\ UNCHANGED <<mounted, appRef, initPc, handle, stage, modelRef, cbs,
                 initErr, sinkVars, hitVars, viewportVars, layoutVars, containerVars, bridgeVars,
                 hookVars, eventVars, nativeVars, homeVars, anchorVars,
                 steadyVars, cameraVars, dualVars, settingsVars>>

\* The component unmounts: cleanup of the init effect and of the load effect.
Unmount ==
  /\ mounted
  /\ mounted' = FALSE
  /\ IF appRef = "app"
       THEN \* model destroyed, then app.destroy(true, {children: true})
            /\ handle' = [h \in Tasks |->
                            IF h = modelRef \/ h \in stage
                              THEN "destroyed" ELSE handle[h]]
            /\ stage' = {}
            /\ modelRef' = 0
            /\ appRef' = "null"
            /\ modelXf' = NoXf
       ELSE UNCHANGED <<handle, stage, modelRef, appRef, modelXf>>
  /\ loads' = [loads EXCEPT ![nextTask - 1].cancelled = TRUE]
  /\ op' = "unmount"
  /\ UNCHANGED <<initPc, modelUrl, nextTask, cbs, initErr, sinkVars, hitVars,
                 viewportVars, screen, containerVars, bridgeVars, hookVars,
                 eventVars, nativeVars, homeVars, anchorVars, steadyVars,
                 cameraVars, dualVars, settingsVars>>

\* ------------------------------------------------------------ parameter sink
ScaleAngle(a) == (a * AngleScaleTenths) \div 10

Smooth(params, data, factor) ==
  [angleX    |-> lerp(params.angleX, ScaleAngle(data.angleX), factor),
   angleY    |-> lerp(params.angleY, ScaleAngle(data.angleY), factor),
   angleZ    |-> lerp(params.angleZ, ScaleAngle(data.angleZ), factor),
   eyeOpenL  |-> lerp(params.eyeOpenL, data.eyeOpenL, factor),
   eyeOpenR  |-> lerp(params.eyeOpenR, data.eyeOpenR, factor),
   eyeBallX  |-> lerp(params.eyeBallX, data.eyeBallX, factor),
   eyeBallY  |-> lerp(params.eyeBallY, data.eyeBallY, factor),
   mouthOpen |-> lerp(params.mouthOpen, data.mouthOpen, factor)]

\* The guard `if (!model?.internalModel?.coreModel) return`: modelRef.current is
\* null, or a model Live2DModel.from resolved with.
ModelReady(model) == model # 0

\* The smoothed state after updateFaceData.
SinkParamsEarly(model, params, data, factor) == Smooth(params, data, factor)

SinkParams(model, params, data, factor) ==
  IF ModelReady(model) THEN Smooth(params, data, factor) ELSE params

\* The writes the try block performs on a rig with parameters `rig`: the
\* setParameterValueById calls in order, up to the first one that throws.
WrittenIds(rig) ==
  {ParamIds[i] : i \in {k \in 1..Len(ParamIds) :
                          \A j \in 1..k : ParamIds[j] \in rig}}

SinkWrites(model) ==
  IF ModelReady(model)
    THEN [target |-> model, ids |-> WrittenIds(RigParams(loads[model].url))]
    ELSE NoWrite

\* The model's display transform after updateFaceData: the handler's writes
\* all go to coreModel.setParameterValueById, none to model.scale,
\* model.rotation or model.position.
XfTurnedByHead(xf, params) ==
  IF xf = NoXf THEN xf ELSE [xf EXCEPT !.rotation = params.angleX \div Unit]

XfAfterFrame(xf, params) == xf

\* The ref's updateFaceData(data), called by the page for every frame of the
\* tracking source.
UpdateFaceData(data) ==
  /\ mounted
  /\ tracking
  /\ nframes < MaxFrames
  /\ paramsRef' = SinkParams(modelRef, paramsRef, data, LerpFactorTenths)
  /\ lastWrite' = SinkWrites(modelRef)
  /\ modelXf' = XfAfterFrame(modelXf, paramsRef')
  /\ nframes' = nframes + 1
  /\ op' = "updateFaceData"
  /\ UNCHANGED <<tracking, viewerVars, hitVars, viewportVars, screen,
                 containerVars, bridgeVars, hookVars, eventVars, nativeVars,
                 homeVars, anchorVars, steadyVars, cameraVars, dualVars,
                 settingsVars>>

\* The tracking source starts and stops (the page's tracking toggle).
StartTracking ==
  /\ ~tracking
  /\ tracking' = TRUE
  /\ op' = "startTracking"
  /\ UNCHANGED <<paramsRef, lastWrite, nframes, viewerVars, hitVars, viewportVars,
                 layoutVars, containerVars, bridgeVars, hookVars, eventVars,
                 nativeVars, homeVars, anchorVars, steadyVars, cameraVars,
                 dualVars, settingsVars>>

StopTracking ==
  /\ tracking
  /\ tracking' = FALSE
  /\ op' = "stopTracking"
  /\ UNCHANGED <<paramsRef, lastWrite, nframes, viewerVars, hitVars, viewportVars,
                 layoutVars, containerVars, bridgeVars, hookVars, eventVars,
                 nativeVars, homeVars, anchorVars, steadyVars, cameraVars,
                 dualVars, settingsVars>>

\* ------------------------------------------------------------ motion dispatch
HitNames == {"Head", "Body", "Arm"}

HitAreas == {<<>>} \cup {<<a>> : a \in HitNames}
              \cup {<<a, b>> : a \in HitNames, b \in HitNames}

Includes(areas, name) == \E i \in 1..Len(areas) : areas[i] = name

MotionForBodyFirst(areas) ==
  IF Includes(areas, "Body") THEN "TapBody"
  ELSE IF Includes(areas, "Head") THEN "TapHead"
  ELSE "Tap"

MotionFor(areas) ==
  IF Includes(areas, "Head") THEN "TapHead"
  ELSE IF Includes(areas, "Body") THEN "TapBody"
  ELSE "Tap"

\* triggerMotion: the motions played, and on which model.
TriggerMotion(model, areas) ==
  IF model = 0 THEN <<>> ELSE <<[on |-> model, group |-> MotionFor(areas)]>>

\* The "hit" listener loadModel registered on model h fires.
Hit(h, areas) ==
  /\ handle[h] = "live"
  /\ h \in stage
  /\ nhits < MaxHits
  /\ lastHit' = areas
  /\ lastMotions' = TriggerMotion(modelRef, areas)
  /\ nhits' = nhits + 1
  /\ op' = "hit"
  /\ UNCHANGED <<viewerVars, sinkVars, viewportVars, layoutVars, containerVars, bridgeVars,
                 hookVars, eventVars, nativeVars, homeVars, anchorVars,
                 steadyVars, cameraVars, dualVars, settingsVars>>

\* ------------------------------------------------------------ viewport
\* The transform effect after a render: transformRef follows the view state
\* and the rotation prop, then applyTransforms runs.
TransformOf(vs, rot, vo) == [scale |-> vs, rotation |-> rot, x |-> vo.x, y |-> vo.y]

\* syncBaseTransform: the view state it sets.
SyncScale(pr) == pr.scale
SyncOffsetKept(pr, vo) == vo
SyncOffset(pr, vo) == [x |-> pr.offsetX, y |-> pr.offsetY]

\* A handler set the view state to (vs, vo); render and effects follow.
Commit(vs, rot, vo) ==
  /\ viewScale' = vs
  /\ viewOffset' = vo
  /\ transformRef' = TransformOf(vs, rot, vo)
  /\ modelXf' = ApplyTransforms(modelRef, appRef, TransformOf(vs, rot, vo),
                                screen, modelXf)

isFromControls(e) == e.controls

\* handlePointerDown
DragOnDown(e, pr, vo, ds) ==
  IF ~pr.enablePan \/ isFromControls(e) THEN ds
  ELSE [active |-> TRUE, startX |-> e.x, startY |-> e.y, baseX |-> vo.x,
        baseY |-> vo.y, moved |-> FALSE]

PointerDown(e) ==
  /\ mounted
  /\ ngest < MaxGestures
  /\ ptr' = e
  /\ dragState' = DragOnDown(e, props, viewOffset, dragState)
  /\ ngest' = ngest + 1
  /\ op' = "pointerDown"
  /\ UNCHANGED <<props, viewScale, viewOffset, transformRef, nwheel, layoutVars,
                 viewerVars, sinkVars, hitVars, containerVars, bridgeVars,
                 hookVars, eventVars, nativeVars, homeVars, anchorVars,
                 steadyVars, cameraVars, dualVars, settingsVars>>

\* handlePointerMove: `movedEnough`
MovedEnoughLoose(dx, dy) == Abs(dx) + Abs(dy) > DRAG_THRESHOLD_PX - 2

MovedEnough(dx, dy) == Abs(dx) + Abs(dy) > DRAG_THRESHOLD_PX

\* handlePointerMove testing the threshold on every move
PansBeyondThreshold(e, pr, ds) ==
  /\ pr.enablePan
  /\ ds.active
  /\ MovedEnough(e.x - ds.startX, e.y - ds.startY)

\* handlePointerMove: does this event pan the view
PansIdle(e, pr, ds) ==
  /\ pr.enablePan
  /\ (ds.moved \/ MovedEnough(e.x - ds.startX, e.y - ds.startY))

Pans(e, pr, ds) ==
  /\ pr.enablePan
  /\ ds.active
  /\ (ds.moved \/ MovedEnough(e.x - ds.startX, e.y - ds.startY))

PointerMove(e) ==
  /\ mounted
  /\ ptr' = [x |-> e.x, y |-> e.y, controls |-> FALSE]
  /\ IF Pans(e, props, dragState)
       THEN /\ dragState' = [dragState EXCEPT !.moved = TRUE]
            /\ Commit(viewScale, props.rotation,
                      [x |-> dragState.baseX + (e.x - dragState.startX),
                       y |-> dragState.baseY + (e.y - dragState.startY)])
       ELSE UNCHANGED <<dragState, viewScale, viewOffset, transformRef, modelXf>>
  /\ op' = "pointerMove"
  /\ UNCHANGED <<props, ngest, nwheel, screen, viewerVars, sinkVars, hitVars, containerVars, bridgeVars,
                 hookVars, eventVars, nativeVars, homeVars, anchorVars,
                 steadyVars, cameraVars, dualVars, settingsVars>>

\* handlePointerUp, bound to onPointerUp and onPointerLeave
DragOnUp(ds) == [ds EXCEPT !.active = FALSE]

PointerUp ==
  /\ mounted
  /\ dragState' = DragOnUp(dragState)
  /\ op' = "pointerUp"
  /\ UNCHANGED <<props, viewScale, viewOffset, transformRef, ptr, ngest,
                 nwheel, layoutVars, viewerVars, sinkVars, hitVars, containerVars, bridgeVars,
                 hookVars, eventVars, nativeVars, homeVars, anchorVars,
                 steadyVars, cameraVars, dualVars, settingsVars>>

PointerLeave ==
  /\ mounted
  /\ dragState' = DragOnUp(dragState)
  /\ op' = "pointerLeave"
  /\ UNCHANGED <<props, viewScale, viewOffset, transformRef, ptr, ngest,
                 nwheel, layoutVars, viewerVars, sinkVars, hitVars, containerVars, bridgeVars,
                 hookVars, eventVars, nativeVars, homeVars, anchorVars,
                 steadyVars, cameraVars, dualVars, settingsVars>>

\* handleWheel: the scale after one wheel event with deltaY of the given sign
WheelScale(prev, deltaY) ==
  Min(DEFAULT_MAX_SCALE,
      Max(DEFAULT_MIN_SCALE,
          prev + (IF deltaY > 0 THEN -DEFAULT_ZOOM_STEP ELSE DEFAULT_ZOOM_STEP)))

Wheel(deltaY, e) ==
  /\ mounted
  /\ nwheel < MaxWheel
  /\ nwheel' = nwheel + 1
  /\ ptr' = e
  /\ IF ~props.enableZoom \/ isFromControls(e)
       THEN UNCHANGED <<viewScale, viewOffset, transformRef, modelXf>>
       ELSE Commit(WheelScale(viewScale, deltaY), props.rotation, viewOffset)
  /\ op' = "wheel"
  /\ UNCHANGED <<props, dragState, ngest, screen, viewerVars, sinkVars, hitVars, containerVars, bridgeVars,
                 hookVars, eventVars, nativeVars, homeVars, anchorVars,
                 steadyVars, cameraVars, dualVars, settingsVars>>

\* resetView of the ref, and the Reset View button: syncBaseTransform
ResetView ==
  /\ mounted
  /\ Commit(SyncScale(props), props.rotation, SyncOffset(props, viewOffset))
  /\ op' = "resetView"
  /\ UNCHANGED <<props, dragState, ptr, ngest, nwheel, screen, viewerVars, sinkVars,
                 hitVars, containerVars, bridgeVars, hookVars, eventVars,
                 nativeVars, homeVars, anchorVars, steadyVars, cameraVars,
                 dualVars, settingsVars>>

\* The page passes new scale, rotation or offset props. syncBaseTransform is
\* rebuilt, and its effect runs, when scale or an offset changed.
SetBaseline(b) ==
  /\ mounted
  /\ b # [scale |-> props.scale, rotation |-> props.rotation,
          x |-> props.offsetX, y |-> props.offsetY]
  /\ props' = [props EXCEPT !.scale = b.scale, !.rotation = b.rotation,
                            !.offsetX = b.x, !.offsetY = b.y]
  /\ IF <<b.scale, b.x, b.y>> # <<props.scale, props.offsetX, props.offsetY>>
       THEN Commit(b.scale, b.rotation, [x |-> b.x, y |-> b.y])
       ELSE Commit(viewScale, b.rotation, viewOffset)
  /\ op' = "setBaseline"
  /\ UNCHANGED <<dragState, ptr, ngest, nwheel, screen, viewerVars, sinkVars, hitVars, containerVars, bridgeVars,
                 hookVars, eventVars, nativeVars, homeVars, anchorVars,
                 steadyVars, cameraVars, dualVars, settingsVars>>

\* The page flips enablePan or enableZoom.
SetEnable(pan, zoom) ==
  /\ mounted
  /\ <<pan, zoom>> # <<props.enablePan, props.enableZoom>>
  /\ props' = [props EXCEPT !.enablePan = pan, !.enableZoom = zoom]
  /\ op' = "setEnable"
  /\ UNCHANGED <<viewScale, viewOffset, transformRef, dragState, ptr, ngest,
                 nwheel, layoutVars, viewerVars, sinkVars, hitVars, containerVars, bridgeVars,
                 hookVars, eventVars, nativeVars, homeVars, anchorVars,
                 steadyVars, cameraVars, dualVars, settingsVars>>

\* The renderer's "resize" event and the ResizeObserver: handleResize
Resize(size) ==
  /\ mounted
  /\ screen' = size
  /\ modelXf' = IF appRef = "null" THEN modelXf
                ELSE ApplyTransforms(modelRef, appRef, transformRef, size, modelXf)
  /\ op' = "resize"
  /\ UNCHANGED <<viewportVars, viewerVars, sinkVars, hitVars, containerVars, bridgeVars,
                 hookVars, eventVars, nativeVars, homeVars, anchorVars,
                 steadyVars, cameraVars, dualVars, settingsVars>>

\* Pointer and wheel events: position, and whether the target is inside the
\* controls element.
Events == {[x |-> q.x, y |-> q.y, controls |-> c] : q \in Points, c \in BOOLEAN}

WheelEvents == {[x |-> 0, y |-> 0, controls |-> c] : c \in BOOLEAN}

Pointer ==
  \/ \E e \in Events : PointerDown(e)
  \/ \E e \in Points : PointerMove(e)
  \/ PointerUp
  \/ PointerLeave

Rebase ==
  \/ ResetView
  \/ \E b \in Baselines : SetBaseline(b)

\* Pans, zooms, resets and baseline changes.
NextViewport ==
  \/ Pointer
  \/ \E d \in {-1, 0, 1}, e \in WheelEvents : Wheel(d, e)
  \/ Rebase

\* The drag state machine with the pan switch.
NextDrag ==
  \/ Pointer
  \/ Rebase
  \/ \E pan \in BOOLEAN : SetEnable(pan, props.enableZoom)

\* The wheel handler with the zoom switch, and resizes.
NextZoom ==
  \/ \E d \in {-1, 0, 1}, e \in WheelEvents : Wheel(d, e)
  \/ Rebase
  \/ \E zoom \in BOOLEAN : SetEnable(props.enablePan, zoom)
  \/ \E size \in ScreenSizes : Resize(size)

\* ------------------------------------------------------------ container viewer
\* a / b on non-negative finite numbers, as a factor num/den, NaN or Infinity.
JsRatio(a, b) ==
  IF b = 0 THEN (IF a = 0 THEN NaN ELSE Infinity)
  ELSE [kind |-> "ratio", num |-> a, den |-> b]

\* zoomRef.current * zoomDelta
ZoomTimes(z, r) ==
  IF z.kind = "nan" \/ r.kind = "nan" THEN NaN
  ELSE IF r.kind = "inf" THEN (IF z.v = 0 THEN NaN ELSE Infinity)
  ELSE Num((z.v * r.num) \div r.den)

\* Math.max(0.1, Math.min(5, x))
ClampZoom(x) ==
  IF x.kind = "nan" THEN NaN
  ELSE IF x.kind = "inf" THEN Num(5000)
  ELSE Num(Max(100, Min(5000, x.v)))

\* updateViewport
UpdateViewport(z, pan) ==
  [scale |-> z, x |-> screen.w \div 2 + pan.x, y |-> screen.h \div 2 + pan.y]

CStep ==
  /\ csteps < MaxContainerSteps
  /\ csteps' = csteps + 1

\* handleWheel of the container viewer
CWheel(deltaY) ==
  /\ CStep
  /\ zoomRef' = ClampZoom(ZoomTimes(zoomRef,
                   IF deltaY > 0 THEN JsRatio(9, 10) ELSE JsRatio(11, 10)))
  /\ viewport' = UpdateViewport(zoomRef', panRef)
  /\ op' = "cWheel"
  /\ UNCHANGED <<panRef, isDraggingRef, lastTouchRef, lastTouchDistanceRef,
                 viewerVars, sinkVars, hitVars, viewportVars, layoutVars, bridgeVars,
                 hookVars, eventVars, nativeVars, homeVars, anchorVars,
                 steadyVars, cameraVars, dualVars, settingsVars>>

CMouseDown(q) ==
  /\ CStep
  /\ isDraggingRef' = TRUE
  /\ lastTouchRef' = Pos(q.x, q.y)
  /\ op' = "cMouseDown"
  /\ UNCHANGED <<zoomRef, panRef, lastTouchDistanceRef, viewport,
                 viewerVars, sinkVars, hitVars, viewportVars, layoutVars, bridgeVars,
                 hookVars, eventVars, nativeVars, homeVars, anchorVars,
                 steadyVars, cameraVars, dualVars, settingsVars>>

\* The pan both handleMouseMove and the one-touch branch of handleTouchMove do.
PanBy(q) ==
  /\ panRef' = [x |-> panRef.x + (q.x - lastTouchRef.x),
                y |-> panRef.y + (q.y - lastTouchRef.y)]
  /\ lastTouchRef' = Pos(q.x, q.y)
  /\ viewport' = UpdateViewport(zoomRef, panRef')

CMouseMove(q) ==
  /\ CStep
  /\ IF isDraggingRef /\ lastTouchRef # Null
       THEN PanBy(q)
       ELSE UNCHANGED <<panRef, lastTouchRef, viewport>>
  /\ op' = "cMouseMove"
  /\ UNCHANGED <<zoomRef, isDraggingRef, lastTouchDistanceRef,
                 viewerVars, sinkVars, hitVars, viewportVars, layoutVars, bridgeVars,
                 hookVars, eventVars, nativeVars, homeVars, anchorVars,
                 steadyVars, cameraVars, dualVars, settingsVars>>

\* handleMouseUp, bound to mouseup and mouseleave
CMouseUp ==
  /\ CStep
  /\ isDraggingRef' = FALSE
  /\ lastTouchRef' = Null
  /\ op' = "cMouseUp"
  /\ UNCHANGED <<zoomRef, panRef, lastTouchDistanceRef, viewport,
                 viewerVars, sinkVars, hitVars, viewportVars, layoutVars, bridgeVars,
                 hookVars, eventVars, nativeVars, homeVars, anchorVars,
                 steadyVars, cameraVars, dualVars, settingsVars>>

CTouchStart(t) ==
  /\ CStep
  /\ IF Len(t) = 1
       THEN /\ isDraggingRef' = TRUE
            /\ lastTouchRef' = Pos(t[1].x, t[1].y)
            /\ UNCHANGED lastTouchDistanceRef
       ELSE IF Len(t) = 2
         THEN /\ lastTouchDistanceRef' = Dist(TouchDistance(t))
              /\ UNCHANGED <<isDraggingRef, lastTouchRef>>
         ELSE UNCHANGED <<isDraggingRef, lastTouchRef, lastTouchDistanceRef>>
  /\ op' = "cTouchStart"
  /\ UNCHANGED <<zoomRef, panRef, viewport,
                 viewerVars, sinkVars, hitVars, viewportVars, layoutVars, bridgeVars,
                 hookVars, eventVars, nativeVars, homeVars, anchorVars,
                 steadyVars, cameraVars, dualVars, settingsVars>>

\* The two-touch branch of handleTouchMove: the zoom after a pinch from the
\* last distance to the current one.
PinchZoom(z, distance, last) == ClampZoom(ZoomTimes(z, JsRatio(distance, last)))

CTouchMove(t) ==
  /\ CStep
  /\ IF Len(t) = 1 /\ isDraggingRef /\ lastTouchRef # Null
       THEN /\ PanBy(t[1])
            /\ UNCHANGED <<zoomRef, lastTouchDistanceRef>>
       ELSE IF Len(t) = 2 /\ lastTouchDistanceRef # Null
         THEN /\ zoomRef' = PinchZoom(zoomRef, TouchDistance(t),
                                      lastTouchDistanceRef.d)
              /\ lastTouchDistanceRef' = Dist(TouchDistance(t))
              /\ viewport' = UpdateViewport(zoomRef', panRef)
              /\ UNCHANGED <<panRef, lastTouchRef>>
         ELSE UNCHANGED <<zoomRef, panRef, lastTouchRef, lastTouchDistanceRef,
                          viewport>>
  /\ op' = "cTouchMove"
  /\ UNCHANGED <<isDraggingRef, viewerVars, sinkVars, hitVars, viewportVars,
                 layoutVars, bridgeVars, hookVars, eventVars, nativeVars,
                 homeVars, anchorVars, steadyVars, cameraVars, dualVars,
                 settingsVars>>

CTouchEnd ==
  /\ CStep
  /\ isDraggingRef' = FALSE
  /\ lastTouchRef' = Null
  /\ lastTouchDistanceRef' = Null
  /\ op' = "cTouchEnd"
  /\ UNCHANGED <<zoomRef, panRef, viewport,
                 viewerVars, sinkVars, hitVars, viewportVars, layoutVars, bridgeVars,
                 hookVars, eventVars, nativeVars, homeVars, anchorVars,
                 steadyVars, cameraVars, dualVars, settingsVars>>

NextContainer ==
  \/ \E d \in {-1, 1} : CWheel(d)
  \/ \E q \in MousePoints : CMouseDown(q)
  \/ \E q \in MousePoints : CMouseMove(q)
  \/ CMouseUp
  \/ \E t \in TouchLists : CTouchStart(t)
  \/ \E t \in TouchLists : CTouchMove(t)
  \/ CTouchEnd

\* ------------------------------------------------------------ command channel
\* A JavaScript string the services build is the sequence of the parts they
\* concatenate; null is a value of its own.
NullStr == [isNull |-> TRUE, parts |-> <<>>]

Str(parts) == [isNull |-> FALSE, parts |-> parts]

\* The value of one property of an object.
Absent == [k |-> "absent", s |-> ""]
JNull == [k |-> "null", s |-> ""]
JTrue == [k |-> "boolean", s |-> "true"]
JFalse == [k |-> "boolean", s |-> "false"]
JNumber == [k |-> "number", s |-> "5"]
JString(s) == [k |-> "string", s |-> s]

\* JavaScript values: typeof-level kind, and for an object its properties.
Plain(t) == [t |-> t, success |-> Absent, error |-> Absent, available |-> Absent]

Undefined == Plain("undefined")

JsNull == Plain("null")

Objects ==
  [t : {"object"},
   success : {Absent, JTrue, JFalse},
   error : {Absent, JNull, JNumber, JString(""), JString("unsupported")},
   available : {Absent, JTrue}]

\* What JSON text can denote.
JsonValues ==
  Objects \cup {JsNull, Plain("string"), Plain("number"), Plain("array")}

\* A string that is the JSON text of v, a string that is no JSON, and a value
\* that is no string.
Text(v) == [js |-> "string", json |-> TRUE, val |-> v]

NotJson == [js |-> "string", json |-> FALSE, val |-> Undefined]

NonString(v) == [js |-> "other", json |-> FALSE, val |-> v]

\* JSON.stringify: undefined for undefined, the text otherwise
JSONstringify(v) == IF v.t = "undefined" THEN NonString(Undefined) ELSE Text(v)

\* JSON.parse: the denoted value, or a SyntaxError
JSONparse(x) ==
  IF x.js = "string" /\ x.json
    THEN [threw |-> FALSE, val |-> x.val]
    ELSE [threw |-> TRUE, val |-> Undefined]

\* What hwv.InvokeDotNet resolves with.
RawResults ==
  {Text(v) : v \in JsonValues} \cup {NotJson}
    \cup {NonString(v) : v \in Objects \cup {JsNull, Undefined}}

\* What hwv.InvokeDotNet rejects with, and what JSON.parse and zod throw.
Thrown == { [isError |-> TRUE, message |-> "timeout"],
            [isError |-> FALSE, message |-> ""] }

SyntaxError == [isError |-> TRUE, message |-> "Unexpected token"]

ZodError == [isError |-> TRUE, message |-> "invalid_type"]

\* ./result
ok(data) == [data |-> data, error |-> NullStr]

err(message) == [data |-> JsNull, error |-> message]

toErrorMessage(e, fallback) == IF e.isError THEN <<e.message>> ELSE fallback

\* window.HybridWebView: undefined, an object without InvokeDotNet, the bridge
HostStates == {"undefined", "noInvoke", "bridge"}

isNative(h) == h = "bridge"

\* zod schemas: the rule of each property; unknown keys are stripped
Schemas ==
  [ FaceTrackingStart |->
      [success |-> "boolean", error |-> "string?null", available |-> "strip"],
    FaceTrackingAvailability |->
      [success |-> "strip", error |-> "strip", available |-> "boolean"],
    PickImage |->
      [success |-> "boolean?", error |-> "string?", available |-> "strip"],
    none |->
      [success |-> "strip", error |-> "strip", available |-> "strip"] ]

FieldOk(rule, f) ==
  CASE rule = "boolean" -> f.k = "boolean"
    [] rule = "boolean?" -> f.k \in {"boolean", "absent"}
    [] rule = "string?" -> f.k \in {"string", "absent"}
    [] rule = "string?null" -> f.k \in {"string", "null", "absent"}
    [] OTHER -> TRUE

Kept(rule, f) == IF rule = "strip" THEN Absent ELSE f

\* schema.parse(data)
SchemaParse(schema, v) ==
  IF /\ v.t = "object"
     /\ FieldOk(schema.success, v.success)
     /\ FieldOk(schema.error, v.error)
     /\ FieldOk(schema.available, v.available)
    THEN [threw |-> FALSE,
          val |-> [t |-> "object",
                   success |-> Kept(schema.success, v.success),
                   error |-> Kept(schema.error, v.error),
                   available |-> Kept(schema.available, v.available)]]
    ELSE [threw |-> TRUE, val |-> Undefined]

\* data && typeof data === "object" && "error" in data
\*   && typeof data.error === "string"
HasStringError(v) == v.t \in {"object", "array"} /\ v.error.k = "string"

\* The commands of the two services.
Commands ==
  { [svc |-> "MauiBridgeService", name |-> "StartFaceTracking",
     kind |-> "invoke", schema |-> "FaceTrackingStart"],
    [svc |-> "MauiBridgeService", name |-> "IsFaceTrackingAvailable",
     kind |-> "invoke", schema |-> "FaceTrackingAvailability"],
    [svc |-> "MauiBridgeService", name |-> "StopFaceTracking",
     kind |-> "invokeVoid", schema |-> "none"],
    [svc |-> "MauiApiService", name |-> "PickImageAsync",
     kind |-> "invoke", schema |-> "PickImage"],
    [svc |-> "MauiApiService", name |-> "DeleteLogFileAsync",
     kind |-> "invokeVoid", schema |-> "none"],
    [svc |-> "MauiApiService", name |-> "ClearAllLogsAsync",
     kind |-> "invokeVoid", schema |-> "none"] }

NoCommand == [svc |-> "", name |-> "", kind |-> "", schema |-> "none"]

\* callMauiBridge when the link is absent
NoChannel(svc, h) ==
  IF svc = "MauiApiService" THEN err(Str(<<"HybridWebView bridge is not available">>))
  ELSE IF ~isNative(h) THEN err(Str(<<"Native Bridge not available">>))
  ELSE err(Str(<<"HybridWebView not found">>))

\* callMauiBridge is about to call hwv.InvokeDotNet
Reaches(svc, h) ==
  IF svc = "MauiApiService" THEN h = "bridge"
  ELSE isNative(h) /\ h # "undefined"

\* callMauiBridge after its await: InvokeDotNet resolved with result
callMauiBridge(result) ==
  ok(IF result.js = "string" THEN result ELSE JSONstringify(result.val))

\* callMauiBridge after its await: InvokeDotNet rejected with e
callMauiBridgeCatch(method, e) ==
  err(Str(toErrorMessage(e, <<"Bridge call failed: ", method>>)))

\* invoke reporting a schema mismatch with the bridge-call message
invokeGenericFailure(methodName, schema, r) ==
  IF ~r.error.isNull THEN err(r.error)
  ELSE LET p == JSONparse(r.data)
           z == SchemaParse(schema, p.val)
       IN IF p.threw
            THEN err(Str(<<"Bridge returned invalid JSON: ">>
                           \o toErrorMessage(SyntaxError, <<>>)))
          ELSE IF HasStringError(p.val) THEN err(Str(<<p.val.error.s>>))
          ELSE IF z.threw THEN err(Str(<<"Bridge call failed: ", methodName>>))
          ELSE ok(z.val)

\* invoke with the error-field check after the schema
invokeSchemaFirst(methodName, schema, r) ==
  IF ~r.error.isNull THEN err(r.error)
  ELSE LET p == JSONparse(r.data)
           z == SchemaParse(schema, p.val)
       IN IF p.threw
            THEN err(Str(<<"Bridge returned invalid JSON: ">>
                           \o toErrorMessage(SyntaxError, <<>>)))
          ELSE IF ~z.threw THEN ok(z.val)
          ELSE IF HasStringError(p.val) THEN err(Str(<<p.val.error.s>>))
          ELSE err(Str(<<"Data parsing failed (", methodName, "): ">>
                         \o toErrorMessage(ZodError, <<>>)))

\* invoke after `await this.callMauiBridge`: res is the bridge's Result
invoke(methodName, schema, r) ==
  IF ~r.error.isNull THEN err(r.error)
  ELSE LET p == JSONparse(r.data)
           z == SchemaParse(schema, p.val)
       IN IF p.threw
            THEN err(Str(<<"Bridge returned invalid JSON: ">>
                           \o toErrorMessage(SyntaxError, <<>>)))
          ELSE IF HasStringError(p.val) THEN err(Str(<<p.val.error.s>>))
          ELSE IF z.threw
            THEN err(Str(<<"Data parsing failed (", methodName, "): ">>
                           \o toErrorMessage(ZodError, <<>>)))
          ELSE ok(z.val)

\* invokeVoid with JSON.parse outside any try: the SyntaxError leaves the
\* async function, whose promise rejects
invokeVoidNoCatch(r) ==
  IF ~r.error.isNull THEN err(r.error)
  ELSE LET p == JSONparse(r.data)
       IN IF p.threw THEN [rejected |-> SyntaxError]
          ELSE IF HasStringError(p.val) THEN err(Str(<<p.val.error.s>>))
          ELSE ok(Undefined)

\* invokeVoid after `await this.callMauiBridge`
invokeVoid(r) ==
  IF ~r.error.isNull THEN err(r.error)
  ELSE LET p == JSONparse(r.data)
       IN IF p.threw
            THEN err(Str(<<"Bridge returned invalid JSON: ">>
                           \o toErrorMessage(SyntaxError, <<>>)))
          ELSE IF HasStringError(p.val) THEN err(Str(<<p.val.error.s>>))
          ELSE ok(Undefined)

\* The Result the command's caller gets from the bridge's Result.
Settle(c, r) ==
  IF c.kind = "invoke" THEN invoke(c.name, Schemas[c.schema], r)
  ELSE invokeVoid(r)

Pending == [data |-> Undefined, error |-> NullStr, pending |-> TRUE]

NoRaw == NonString(Undefined)

InitBridge ==
  /\ call = [pc |-> "idle", cmd |-> NoCommand]
  /\ res = Pending
  /\ lastRaw = NoRaw
  /\ invoked = 0
  /\ ncalls = 0
  /\ stalled = FALSE

\* A public method calls invoke or invokeVoid, which runs up to the await of
\* InvokeDotNet, or to its end when the link is absent.
Command(c) ==
  /\ call.pc = "idle"
  /\ ncalls < MaxCalls
  /\ ncalls' = ncalls + 1
  /\ lastRaw' = NoRaw
  /\ IF Reaches(c.svc, hwv)
       THEN /\ call' = [pc |-> "awaiting", cmd |-> c]
            /\ invoked' = invoked + 1
            /\ res' = Pending
            /\ op' = "commandSent"
       ELSE /\ call' = [pc |-> "idle", cmd |-> c]
            /\ res' = Settle(c, NoChannel(c.svc, hwv))
            /\ op' = "commandNoChannel"
            /\ UNCHANGED invoked
  /\ UNCHANGED <<hwv, stalled, viewerVars, sinkVars, hitVars, viewportVars,
                 layoutVars, containerVars, hookVars, eventVars, nativeVars,
                 homeVars, anchorVars, steadyVars, cameraVars, dualVars,
                 settingsVars>>

\* The native side never settles the promise InvokeDotNet returned:
\* callMauiBridge stays at its await, which has no timer beside it.
LinkStalls ==
  /\ call.pc = "awaiting"
  /\ ~stalled
  /\ stalled' = TRUE
  /\ op' = "linkStalled"
  /\ UNCHANGED <<hwv, call, res, lastRaw, invoked, ncalls, viewerVars, sinkVars,
                 hitVars, viewportVars, layoutVars, containerVars, hookVars,
                 eventVars, nativeVars, homeVars, anchorVars, steadyVars,
                 cameraVars, dualVars, settingsVars>>

\* InvokeDotNet resolves; the command runs to its end.
CommandResolved(result) ==
  /\ call.pc = "awaiting"
  /\ ~stalled
  /\ call' = [call EXCEPT !.pc = "idle"]
  /\ lastRaw' = result
  /\ res' = Settle(call.cmd, callMauiBridge(result))
  /\ op' = "commandResolved"
  /\ UNCHANGED <<hwv, invoked, ncalls, stalled, viewerVars, sinkVars, hitVars,
                 viewportVars, layoutVars, containerVars, hookVars, eventVars,
                 nativeVars, homeVars, anchorVars, steadyVars, cameraVars,
                 dualVars, settingsVars>>

\* InvokeDotNet rejects; the command runs to its end.
CommandRejected(e) ==
  /\ call.pc = "awaiting"
  /\ ~stalled
  /\ call' = [call EXCEPT !.pc = "idle"]
  /\ lastRaw' = NoRaw
  /\ res' = Settle(call.cmd, callMauiBridgeCatch(call.cmd.name, e))
  /\ op' = "commandRejected"
  /\ UNCHANGED <<hwv, invoked, ncalls, stalled, viewerVars, sinkVars, hitVars,
                 viewportVars, layoutVars, containerVars, hookVars, eventVars,
                 nativeVars, homeVars, anchorVars, steadyVars, cameraVars,
                 dualVars, settingsVars>>

NextBridge ==
  \/ \E c \in Commands : Command(c)
  \/ \E r \in RawResults : CommandResolved(r)
  \/ \E e \in Thrown : CommandRejected(e)
  \/ LinkStalls

\* ------------------------------------------------------------ settings store
\* Numbers are kept in hundredths.
DEFAULT_MODEL_URL == "katou_01"
DEFAULT_LERP_FACTOR == 30
DEFAULT_MODEL_SCALE == 15
DEFAULT_MODEL_ROTATION == 0

SettingKeys ==
  {"showDebugInfo", "modelUrl", "lerpFactor", "modelScale", "modelRotation"}

\* The initial state of the store.
StoreDefaults ==
  [showDebugInfo |-> TRUE,
   modelUrl |-> DEFAULT_MODEL_URL,
   lerpFactor |-> DEFAULT_LERP_FACTOR,
   modelScale |-> DEFAULT_MODEL_SCALE,
   modelRotation |-> DEFAULT_MODEL_ROTATION]

\* What the user gives each setter.
UserValues ==
  [showDebugInfo |-> {FALSE},
   modelUrl |-> {"katou_01", "hiyori"},
   lerpFactor |-> {30, 50},
   modelScale |-> {20},
   modelRotation |-> {9000}]

\* The text each setter stores: String(show), url, String(val)
StoredText(k, v) ==
  IF k = "showDebugInfo" THEN Str(<<IF v THEN "true" ELSE "false">>)
  ELSE Str(<<v>>)

\* parseFloat of a text that String produced from a number
parseFloat(s) == s.parts[1]

\* A string is truthy unless it is empty; null is not.
TruthyText(s) == ~s.isNull /\ s.parts # <<>>

\* The object loadSettings hands to set(), from the five results' data.
Loaded(r) ==
  [showDebugInfo |->
     IF TruthyText(r.showDebugInfo)
       THEN r.showDebugInfo = Str(<<"true">>) ELSE TRUE,
   modelUrl |->
     IF TruthyText(r.modelUrl) THEN r.modelUrl.parts[1] ELSE DEFAULT_MODEL_URL,
   lerpFactor |->
     IF TruthyText(r.lerpFactor)
       THEN parseFloat(r.lerpFactor) ELSE DEFAULT_LERP_FACTOR,
   modelScale |->
     IF TruthyText(r.modelScale)
       THEN parseFloat(r.modelScale) ELSE DEFAULT_MODEL_SCALE,
   modelRotation |->
     IF TruthyText(r.modelRotation)
       THEN parseFloat(r.modelRotation) ELSE DEFAULT_MODEL_ROTATION]

NotRead == [read |-> FALSE, data |-> NullStr]

NotGiven == [given |-> FALSE, v |-> 0]

InitSettings ==
  /\ settings = StoreDefaults
  /\ preferences = [k \in SettingKeys |-> NullStr]
  /\ loadPc = "idle"
  /\ reads = [k \in SettingKeys |-> NotRead]
  /\ writes = <<>>
  /\ setDuring = [k \in SettingKeys |-> NotGiven]
  /\ nsets = 0
  /\ nsettingsLoads = 0

OutsideSettings ==
  UNCHANGED <<viewerVars, sinkVars, hitVars, viewportVars, layoutVars,
              containerVars, bridgeVars, hookVars, eventVars, nativeVars,
              homeVars, anchorVars, steadyVars, cameraVars, dualVars>>

\* loadSettings up to its await: the five getStringValue calls are sent.
LoadSettings ==
  /\ loadPc = "idle"
  /\ nsettingsLoads < MaxSettingsLoads
  /\ nsettingsLoads' = nsettingsLoads + 1
  /\ loadPc' = "awaiting"
  /\ reads' = [k \in SettingKeys |-> NotRead]
  /\ setDuring' = [k \in SettingKeys |-> NotGiven]
  /\ op' = "loadSettings"
  /\ UNCHANGED <<settings, preferences, writes, nsets>>
  /\ OutsideSettings

\* The native side serves GetStringValue(key): the stored string, or null.
ReadServed(k) ==
  /\ loadPc = "awaiting"
  /\ ~reads[k].read
  /\ reads' = [reads EXCEPT ![k] = [read |-> TRUE, data |-> preferences[k]]]
  /\ op' = "readServed"
  /\ UNCHANGED <<settings, preferences, loadPc, writes, setDuring, nsets,
                 nsettingsLoads>>
  /\ OutsideSettings

\* Promise.all resolved: loadSettings resumes and calls set().
LoadSettingsResumes ==
  /\ loadPc = "awaiting"
  /\ \A k \in SettingKeys : reads[k].read
  /\ settings' = Loaded([k \in SettingKeys |-> reads[k].data])
  /\ loadPc' = "idle"
  /\ op' = "settingsLoaded"
  /\ UNCHANGED <<preferences, reads, writes, setDuring, nsets, nsettingsLoads>>
  /\ OutsideSettings

\* setShowDebugInfo, setModelUrl, setLerpFactor, setModelScale,
\* setModelRotation up to the await: set(), then setStringValue is sent.
Setter(k, v) ==
  /\ nsets < MaxSets
  /\ nsets' = nsets + 1
  /\ settings' = [settings EXCEPT ![k] = v]
  /\ writes' = Append(writes, [key |-> k, value |-> StoredText(k, v)])
  /\ setDuring' =
       IF loadPc = "awaiting" \/ setDuring[k].given
         THEN [setDuring EXCEPT ![k] = [given |-> TRUE, v |-> v]]
         ELSE setDuring
  /\ op' = "setter"
  /\ UNCHANGED <<preferences, loadPc, reads, nsettingsLoads>>
  /\ OutsideSettings

\* The native side serves the oldest SetStringValue(key, value).
WriteServed ==
  /\ writes # <<>>
  /\ preferences' = [preferences EXCEPT ![Head(writes).key] = Head(writes).value]
  /\ writes' = Tail(writes)
  /\ op' = "writeServed"
  /\ UNCHANGED <<settings, loadPc, reads, setDuring, nsets, nsettingsLoads>>
  /\ OutsideSettings

NextSettings ==
  \/ LoadSettings
  \/ \E k \in SettingKeys : ReadServed(k)
  \/ LoadSettingsResumes
  \/ \E k \in SettingKeys : \E v \in UserValues[k] : Setter(k, v)
  \/ WriteServed

\* ---------------------------------------------------------------- log helpers
LogCommands == {"DeleteLogFileAsync", "ClearAllLogsAsync"}

JsTrue == Plain("true")

\* MauiApiService.deleteLogFile and clearAllLogs after `await this.invokeVoid`
MauiLogResult(r) == IF ~r.error.isNull THEN err(r.error) ELSE ok(JsTrue)

\* The web fallback has neither method: the proxy answers with an object that
\* has an error and no data.
NotImplemented ==
  [data |-> Undefined, error |-> Str(<<"Not implemented in web mode">>)]

\* apiService.deleteLogFile / clearAllLogs: the proxy's choice of service
apiService(h, r) ==
  IF h = "bridge" THEN MauiLogResult(r) ELSE NotImplemented

\* a ?? b
NullishOr(a, b) == IF a.t \in {"null", "undefined"} THEN b ELSE a

\* logsService.deleteLogFile: (result as any).data ?? true
deleteLogFile(h, r) == NullishOr(apiService(h, r).data, JsTrue)

\* logsService.clearAllLogs
clearAllLogs(h, r) == NullishOr(apiService(h, r).data, JsTrue)

\* What the log helper whose command has just completed returns.
LogHelperReturn ==
  IF call.cmd.name = "DeleteLogFileAsync" THEN deleteLogFile(hwv, res)
  ELSE clearAllLogs(hwv, res)

\* ------------------------------------------------- native face tracking hook
\* isNativeEnv testing only `typeof window !== "undefined"`
isNativeEnvWindowOnly(h) == TRUE

\* isNativeEnv: window.HybridWebView?.InvokeDotNet is truthy
isNativeEnv(h) == h = "bridge"

\* result?.f for what InvokeDotNet resolved with: a string, null and undefined
\* have no such property
Prop(result, f) ==
  IF result.js = "other" /\ result.val.t = "object" THEN result.val[f]
  ELSE Absent

Truthy(pv) ==
  \/ pv = JTrue
  \/ pv.k = "number"
  \/ pv.k = "string" /\ pv.s # ""

\* a ?? b
Coalesce(a, b) == IF a.k \in {"absent", "null"} THEN b ELSE a

\* a || b
OrElse(a, b) == IF Truthy(a) THEN a ELSE b

InitHook ==
  /\ isAvailable = FALSE
  /\ isTracking = FALSE
  /\ error = JNull
  /\ hookPending = {}
  /\ nhook = 0

\* checkAvailability up to its await, or to its end outside the native host
CheckAvailability ==
  /\ nhook < MaxHookCalls
  /\ "IsFaceTrackingAvailable" \notin hookPending
  /\ nhook' = nhook + 1
  /\ IF ~isNativeEnv(hwv)
       THEN /\ isAvailable' = FALSE
            /\ op' = "checkAvailabilityInert"
            /\ UNCHANGED <<hookPending, invoked>>
       ELSE /\ hookPending' = hookPending \cup {"IsFaceTrackingAvailable"}
            /\ invoked' = invoked + 1
            /\ op' = "checkAvailabilitySent"
            /\ UNCHANGED isAvailable
  /\ UNCHANGED <<isTracking, error, hwv, call, res, lastRaw, ncalls, stalled,
                 viewerVars, sinkVars, hitVars, viewportVars, layoutVars,
                 containerVars, eventVars, nativeVars, homeVars, anchorVars,
                 steadyVars, cameraVars, dualVars, settingsVars>>

\* startTracking up to its await, or to its end outside the native host
HookStartTracking ==
  /\ nhook < MaxHookCalls
  /\ "StartFaceTracking" \notin hookPending
  /\ nhook' = nhook + 1
  /\ IF ~isNativeEnv(hwv)
       THEN /\ error' = JString("Not running in MAUI environment")
            /\ op' = "startTrackingInert"
            /\ UNCHANGED <<hookPending, invoked>>
       ELSE /\ error' = JNull
            /\ hookPending' = hookPending \cup {"StartFaceTracking"}
            /\ invoked' = invoked + 1
            /\ op' = "startTrackingSent"
  /\ UNCHANGED <<isAvailable, isTracking, hwv, call, res, lastRaw, ncalls,
                 stalled, viewerVars, sinkVars, hitVars, viewportVars,
                 layoutVars, containerVars, eventVars, nativeVars, homeVars,
                 anchorVars, steadyVars, cameraVars, dualVars, settingsVars>>

\* stopTracking up to its await, or to its end outside the native host
HookStopTracking ==
  /\ nhook < MaxHookCalls
  /\ "StopFaceTracking" \notin hookPending
  /\ nhook' = nhook + 1
  /\ IF ~isNativeEnv(hwv)
       THEN /\ op' = "stopTrackingInert"
            /\ UNCHANGED <<hookPending, invoked>>
       ELSE /\ hookPending' = hookPending \cup {"StopFaceTracking"}
            /\ invoked' = invoked + 1
            /\ op' = "stopTrackingSent"
  /\ UNCHANGED <<isAvailable, isTracking, error, hwv, call, res, lastRaw,
                 ncalls, stalled, viewerVars, sinkVars, hitVars, viewportVars,
                 layoutVars, containerVars, eventVars, nativeVars, homeVars,
                 anchorVars, steadyVars, cameraVars, dualVars, settingsVars>>

\* InvokeDotNet resolves for one of the hook's calls, which runs to its end.
HookResolved(m, result) ==
  /\ m \in hookPending
  /\ hookPending' = hookPending \ {m}
  /\ op' = "hookResolved"
  /\ isAvailable' =
       IF m = "IsFaceTrackingAvailable"
         THEN Coalesce(Prop(result, "available"), JFalse) = JTrue
         ELSE isAvailable
  /\ isTracking' =
       IF m = "StartFaceTracking" /\ Truthy(Prop(result, "success")) THEN TRUE
       ELSE IF m = "StopFaceTracking" THEN FALSE
       ELSE isTracking
  /\ error' =
       IF m = "StartFaceTracking" /\ ~Truthy(Prop(result, "success"))
         THEN OrElse(Prop(result, "error"), JString("Failed to start tracking"))
         ELSE error
  /\ UNCHANGED <<nhook, bridgeVars, viewerVars, sinkVars, hitVars,
                 viewportVars, layoutVars, containerVars, eventVars,
                 nativeVars, homeVars, anchorVars, steadyVars, cameraVars,
                 dualVars, settingsVars>>

\* InvokeDotNet rejects for one of the hook's calls; its catch runs.
HookRejected(m, e) ==
  /\ m \in hookPending
  /\ hookPending' = hookPending \ {m}
  /\ op' = "hookRejected"
  /\ isAvailable' = IF m = "IsFaceTrackingAvailable" THEN FALSE ELSE isAvailable
  /\ error' =
       IF m = "StartFaceTracking"
         THEN JString(IF e.isError THEN e.message ELSE "Unknown error")
         ELSE error
  /\ UNCHANGED <<isTracking, nhook, bridgeVars, viewerVars, sinkVars, hitVars,
                 viewportVars, layoutVars, containerVars, eventVars,
                 nativeVars, homeVars, anchorVars, steadyVars, cameraVars,
                 dualVars, settingsVars>>

HookMethods ==
  {"IsFaceTrackingAvailable", "StartFaceTracking", "StopFaceTracking"}

NextHook ==
  \/ CheckAvailability
  \/ HookStartTracking
  \/ HookStopTracking
  \/ \E m \in HookMethods, r \in RawResults : HookResolved(m, r)
  \/ \E m \in HookMethods, e \in Thrown : HookRejected(m, e)

\* ------------------------------------------------------------ event channel
ParamFields == DOMAIN DefaultParams

\* parsed.data: null, or an object with the frame's fields of which `missing`
\* are absent (reading them gives undefined).
NoData == [kind |-> "null", frame |-> DefaultParams, missing |-> {}]

FrameData(f) == [kind |-> "object", frame |-> f, missing |-> {}]

PartialData(f, missing) == [kind |-> "object", frame |-> f, missing |-> missing]

EventDatas ==
  {NoData} \cup {FrameData(f) : f \in Frames}
    \cup {PartialData(f, {"mouthOpen"}) : f \in Frames}
    \cup {PartialData(DefaultParams, ParamFields)}

\* event.detail.message: absent, a string that is no JSON, the JSON text of a
\* value, or a value that is no string.
NoMessage == [raw |-> "none", t |-> "undefined", type |-> "", data |-> NoData]

BadJson == [raw |-> "notJson", t |-> "undefined", type |-> "", data |-> NoData]

JsonMsg(t, type, d) == [raw |-> "json", t |-> t, type |-> type, data |-> d]

ObjectMsg(type, d) == [raw |-> "object", t |-> "object", type |-> type, data |-> d]

Messages ==
  {NoMessage, BadJson, JsonMsg("null", "", NoData), JsonMsg("number", "", NoData)}
    \cup {JsonMsg("object", ty, d) : ty \in {"faceTracking", "log", ""},
                                    d \in EventDatas}
    \cup {ObjectMsg("faceTracking", FrameData(f)) : f \in Frames}

\* handleMessage reaches onDataRef.current?.(parsed.data): raw is truthy,
\* JSON.parse and parsed.type did not throw, the type is "faceTracking" and
\* parsed.data is truthy.
Delivers(m) ==
  /\ m.raw \in {"json", "object"}
  /\ m.t = "object"
  /\ m.type = "faceTracking"
  /\ m.data.kind # "null"

\* The fields that are NaN after updateFaceData(data): lerp with an undefined
\* target, or from a NaN current value, is NaN.
NanAfter(model, nans, data) ==
  IF ModelReady(model) THEN nans \cup data.missing ELSE nans

InitEvents ==
  /\ lastMsg = NoMessage
  /\ consumed = FALSE
  /\ nanParams = {}
  /\ nevents = 0

\* The listener of HybridWebViewMessageReceived, with the page's onData
\* (the viewer's updateFaceData) when it is reached.
HandleMessage(m) ==
  /\ nevents < MaxEvents
  /\ nevents' = nevents + 1
  /\ lastMsg' = m
  /\ consumed' = Delivers(m)
  /\ op' = "handleMessage"
  /\ IF Delivers(m)
       THEN /\ nanParams' = NanAfter(modelRef, nanParams, m.data)
            /\ paramsRef' =
                 LET sm == SinkParams(modelRef, paramsRef, m.data.frame,
                                      LerpFactorTenths)
                 IN [k \in ParamFields |->
                       IF k \in nanParams' THEN paramsRef[k] ELSE sm[k]]
            /\ lastWrite' = SinkWrites(modelRef)
       ELSE UNCHANGED <<nanParams, paramsRef, lastWrite>>
  /\ UNCHANGED <<tracking, nframes, viewerVars, hitVars, viewportVars,
                 layoutVars, containerVars, bridgeVars, hookVars, nativeVars,
                 homeVars, anchorVars, steadyVars, cameraVars, dualVars,
                 settingsVars>>

\* Events of the native side.
NextEvents ==
  \/ \E m \in Messages : HandleMessage(m)

\* ------------------------------------------------------ native face tracking
Platforms == {"ios", "iosUnsupported", "other"}

\* A capability check that every device passes
IsSupportedAnywhere(p) == TRUE

\* ARFaceTrackingConfiguration.IsSupported
IsSupported(p) == p = "ios"

\* StartTrackingAsync without its first line
ReturnsEarlyNever(active) == FALSE

\* `if (IsTracking) return true;`
ReturnsEarly(active) == active

\* `IsTracking = true` placed before the session is constructed and run
ReachesRunUnchecked(granted, threw) == granted

\* The statements after the permission answer reach `IsTracking = true`.
ReachesRun(granted, threw) == granted /\ ~threw

\* The objects the StartFaceTracking lambda returns.
NoReply == [replied |-> FALSE, success |-> FALSE, error |-> NullStr]

StartSucceeded == [replied |-> TRUE, success |-> TRUE, error |-> NullStr]

StartFailed ==
  [replied |-> TRUE, success |-> FALSE,
   error |-> Str(<<"Failed to start face tracking. Device may not support ARKit face tracking.">>)]

StartReplyFor(result) == IF result THEN StartSucceeded ELSE StartFailed

NoAnswer == [granted |-> FALSE, threw |-> FALSE]

\* GetFaceTrackingStatus: _faceTrackingService?.IsTracking ?? false
GetFaceTrackingStatus == faceTrackingService /\ IsTracking

\* The service and the bridge before any call.
InitService ==
  /\ faceTrackingService = FALSE
  /\ IsTracking = FALSE
  /\ arSession = 0
  /\ sessionsCreated = 0
  /\ alive = {}
  /\ requesting = 0
  /\ startReply = NoReply
  /\ lastAnswer = NoAnswer
  /\ stopRequested = FALSE
  /\ captured = 0
  /\ mainQueue = <<>>
  /\ sent = <<>>

\* An iOS device with face tracking, the web view attached.
InitNative ==
  /\ platform = "ios"
  /\ webView = TRUE
  /\ InitService

\* MauiBridge.StartFaceTracking: EnsureFaceTrackingService, then
\* StartTrackingAsync up to its return or to the await of the permission.
StartFaceTracking ==
  /\ sessionsCreated + requesting < MaxSessions
  /\ faceTrackingService' = TRUE
  /\ stopRequested' = FALSE
  /\ op' = "StartFaceTracking"
  /\ IF platform = "other"
       THEN /\ startReply' = StartReplyFor(FALSE)
            /\ UNCHANGED requesting
     ELSE IF ReturnsEarly(IsTracking)
       THEN /\ startReply' = StartReplyFor(TRUE)
            /\ UNCHANGED requesting
     ELSE IF ~IsSupported(platform)
       THEN /\ startReply' = StartReplyFor(FALSE)
            /\ UNCHANGED requesting
     ELSE /\ requesting' = requesting + 1
          /\ UNCHANGED startReply
  /\ UNCHANGED <<platform, IsTracking, arSession, sessionsCreated, alive,
                 lastAnswer, webView, captured, mainQueue, sent, viewerVars,
                 sinkVars, hitVars, viewportVars, layoutVars, containerVars,
                 bridgeVars, hookVars, eventVars, homeVars, anchorVars,
                 steadyVars, cameraVars, dualVars, settingsVars>>

\* RequestAccessForMediaTypeAsync answers and StartTrackingAsync runs to its
\* end; `threw` is an exception of the session's construction or of Run.
PermissionAnswered(granted, threw) ==
  /\ requesting > 0
  /\ requesting' = requesting - 1
  /\ lastAnswer' = [granted |-> granted, threw |-> threw]
  /\ op' = "StartTrackingAsyncResumed"
  /\ IF ~granted
       THEN /\ startReply' = StartReplyFor(FALSE)
            /\ UNCHANGED <<IsTracking, arSession, sessionsCreated, alive>>
       ELSE /\ sessionsCreated' = sessionsCreated + 1
            /\ arSession' = sessionsCreated + 1
            /\ IF ReachesRun(granted, threw)
                 THEN /\ alive' = alive \cup {sessionsCreated + 1}
                      /\ IsTracking' = TRUE
                      /\ startReply' = StartReplyFor(TRUE)
                 ELSE /\ startReply' = StartReplyFor(FALSE)
                      /\ UNCHANGED <<alive, IsTracking>>
  /\ UNCHANGED <<platform, faceTrackingService, stopRequested, webView,
                 captured, mainQueue, sent, viewerVars, sinkVars, hitVars,
                 viewportVars, layoutVars, containerVars, bridgeVars, hookVars,
                 eventVars, homeVars, anchorVars, steadyVars, cameraVars,
                 dualVars, settingsVars>>

\* MauiBridge.StopFaceTracking: _faceTrackingService?.StopTracking()
StopFaceTracking ==
  /\ stopRequested' = TRUE
  /\ op' = "StopFaceTracking"
  /\ IF faceTrackingService
       THEN /\ alive' = alive \ {arSession}
            /\ arSession' = 0
            /\ IsTracking' = FALSE
       ELSE UNCHANGED <<alive, arSession, IsTracking>>
  /\ UNCHANGED <<platform, faceTrackingService, sessionsCreated, requesting,
                 startReply, lastAnswer, webView, captured, mainQueue, sent,
                 viewerVars, sinkVars, hitVars, viewportVars, layoutVars,
                 containerVars, bridgeVars, hookVars, eventVars, homeVars,
                 anchorVars, steadyVars, cameraVars, dualVars, settingsVars>>

\* A running session reports a face anchor: DidUpdateAnchors,
\* ProcessFaceAnchor, RaiseFaceUpdate, OnFaceTrackingUpdate, which hands the
\* serialized frame to the main thread unless there is no web view.
FaceUpdate ==
  /\ alive # {}
  /\ captured < MaxCaptured
  /\ captured' = captured + 1
  /\ mainQueue' = IF webView THEN Append(mainQueue, captured + 1) ELSE mainQueue
  /\ op' = "OnFaceTrackingUpdate"
  /\ UNCHANGED <<platform, faceTrackingService, IsTracking, arSession,
                 sessionsCreated, alive, requesting, startReply, lastAnswer,
                 stopRequested, webView, sent, viewerVars, sinkVars, hitVars,
                 viewportVars, layoutVars, containerVars, bridgeVars, hookVars,
                 eventVars, homeVars, anchorVars, steadyVars, cameraVars,
                 dualVars, settingsVars>>

\* The main thread runs the oldest queued closure: _webView.SendRawMessage.
MainThreadRuns ==
  /\ mainQueue # <<>>
  /\ mainQueue' = Tail(mainQueue)
  /\ sent' = Append(sent, Head(mainQueue))
  /\ op' = "SendRawMessage"
  /\ UNCHANGED <<platform, faceTrackingService, IsTracking, arSession,
                 sessionsCreated, alive, requesting, startReply, lastAnswer,
                 stopRequested, webView, captured, viewerVars, sinkVars,
                 hitVars, viewportVars, layoutVars, containerVars, bridgeVars,
                 hookVars, eventVars, homeVars, anchorVars, steadyVars,
                 cameraVars, dualVars, settingsVars>>

NextNative ==
  \/ StartFaceTracking
  \/ \E granted \in BOOLEAN, threw \in BOOLEAN : PermissionAnswered(granted, threw)
  \/ StopFaceTracking
  \/ FaceUpdate
  \/ MainThreadRuns

\* ------------------------------------------------------------ home page
HOME_INITIAL_Y == 50
HOME_RESIZE_Y == 100
HomeLerpFactorTenths == 3

NoHomeModel == [loaded |-> FALSE, x |-> 0, y |-> 0]

\* initLive2D: where the model is put before it is added to the stage
HomePlacement(scr) ==
  [loaded |-> TRUE, x |-> scr.w \div 2, y |-> scr.h \div 2 + HOME_INITIAL_Y]

\* handleResize of the page
HomeResized(model, scr) ==
  IF model.loaded
    THEN [loaded |-> TRUE, x |-> scr.w \div 2, y |-> scr.h \div 2 + HOME_RESIZE_Y]
    ELSE model

\* applyFaceData: the smoothed values
HomeSmooth(params, data, factor) ==
  [angleX    |-> lerp(params.angleX, data.angleX, factor),
   angleY    |-> lerp(params.angleY, data.angleY, factor),
   angleZ    |-> lerp(params.angleZ, data.angleZ, factor),
   eyeOpenL  |-> lerp(params.eyeOpenL, data.eyeOpenL, factor),
   eyeOpenR  |-> lerp(params.eyeOpenR, data.eyeOpenR, factor),
   eyeBallX  |-> lerp(params.eyeBallX, data.eyeBallX, factor),
   eyeBallY  |-> lerp(params.eyeBallY, data.eyeBallY, factor),
   mouthOpen |-> lerp(params.mouthOpen, data.mouthOpen, factor)]

InitHome ==
  /\ homeModel = NoHomeModel
  /\ homeScreen = [w |-> 400, h |-> 800]
  /\ homeParams = DefaultParams
  /\ homeData = DefaultParams
  /\ nhome = 0

\* Live2DModel.from resolves in initLive2D and the model is placed.
HomeModelLoaded ==
  /\ ~homeModel.loaded
  /\ homeModel' = HomePlacement(homeScreen)
  /\ op' = "homeModelLoaded"
  /\ UNCHANGED <<homeScreen, homeParams, homeData, nhome, viewerVars, sinkVars,
                 hitVars, viewportVars, layoutVars, containerVars, bridgeVars,
                 hookVars, eventVars, nativeVars, anchorVars, steadyVars,
                 cameraVars, dualVars, settingsVars>>

\* The window's resize event, after the renderer took the size of its parent.
HomeResize(size) ==
  /\ homeScreen' = size
  /\ homeModel' = HomeResized(homeModel, size)
  /\ op' = "homeResize"
  /\ UNCHANGED <<homeParams, homeData, nhome, viewerVars, sinkVars, hitVars,
                 viewportVars, layoutVars, containerVars, bridgeVars, hookVars,
                 eventVars, nativeVars, anchorVars, steadyVars, cameraVars,
                 dualVars, settingsVars>>

\* applyFaceData(data), the onData and onResult callback of the page
HomeApplyFaceData(data) ==
  /\ nhome < MaxHomeFrames
  /\ nhome' = nhome + 1
  /\ homeData' = data
  /\ homeParams' = IF homeModel.loaded
                     THEN HomeSmooth(homeParams, data, HomeLerpFactorTenths)
                     ELSE homeParams
  /\ op' = "homeApplyFaceData"
  /\ UNCHANGED <<homeModel, homeScreen, viewerVars, sinkVars, hitVars,
                 viewportVars, layoutVars, containerVars, bridgeVars, hookVars,
                 eventVars, nativeVars, anchorVars, steadyVars, cameraVars,
                 dualVars, settingsVars>>

NextHome ==
  \/ HomeModelLoaded
  \/ \E size \in ScreenSizes : HomeResize(size)
  \/ \E d \in Frames : HomeApplyFaceData(d)

\* ---------------------------------------------------- face anchor extraction
\* Angles are the points of the circle of radius AngleRadius that have integer
\* coordinates: the angle whose sine is s / AngleRadius and whose cosine is
\* c / AngleRadius. Sines, cosines and their products are exact on them.
AngleRadius == 5

Angle(s, c) == [s |-> s, c |-> c]

Angles ==
  {Angle(s, c) : s \in -AngleRadius..AngleRadius, c \in -AngleRadius..AngleRadius}
  \cap {a \in [s : -AngleRadius..AngleRadius, c : -AngleRadius..AngleRadius] :
          a.s * a.s + a.c * a.c = AngleRadius * AngleRadius}

\* Pitches away from the gimbal-lock singularities: strictly between -90 and
\* 90 degrees.
Pitches == {a \in Angles : a.c > 0}

Poses == [pitch : Pitches, yaw : Angles, roll : Angles]

\* The rotation submatrix of a face transform with the given head pose, the
\* rotation Ry(yaw) Rx(pitch) Rz(roll); entries in units of 1 / AngleRadius^3.
RotationOf(pose) ==
  LET sx == pose.pitch.s  cx == pose.pitch.c
      sy == pose.yaw.s    cy == pose.yaw.c
      sz == pose.roll.s   cz == pose.roll.c
      R  == AngleRadius
  IN [M11 |-> cy * cz * R + sy * sx * sz,
      M12 |-> sy * sx * cz - cy * sz * R,
      M13 |-> sy * cx * R,
      M21 |-> cx * sz * R,
      M22 |-> cx * cz * R,
      M23 |-> -(sx * R * R),
      M31 |-> cy * sx * sz - sy * cz * R,
      M32 |-> sy * sz * R + cy * sx * cz,
      M33 |-> cy * cx * R]

\* Math.Asin: the angle between -90 and 90 degrees with the given sine.
Asin(v) ==
  LET s == v \div (AngleRadius * AngleRadius)
  IN Angle(s, Sqrt(AngleRadius * AngleRadius - s * s))

\* Math.Atan2(y, x): the direction of the vector (x, y).
Atan2(y, x) ==
  LET n == Sqrt(y * y + x * x)
  IN IF n = 0 THEN Angle(0, AngleRadius)
     ELSE Angle((y * AngleRadius) \div n, (x * AngleRadius) \div n)

\* ExtractEulerAngles with the roll read from the first row.
ExtractEulerAnglesFirstRow(matrix) ==
  [pitch |-> Asin(-matrix.M23),
   yaw   |-> Atan2(matrix.M13, matrix.M33),
   roll  |-> Atan2(matrix.M12, matrix.M11)]

ExtractEulerAngles(matrix) ==
  [pitch |-> Asin(-matrix.M23),
   yaw   |-> Atan2(matrix.M13, matrix.M33),
   roll  |-> Atan2(matrix.M21, matrix.M22)]

\* A blend-shape coefficient: null, or a number in units of 1 / Unit.
NoCoefficient == [has |-> FALSE, v |-> 0]
Coefficient(v) == [has |-> TRUE, v |-> v]

\* `c ?? 0f`
OrZero(c) == IF c.has THEN c.v ELSE 0

ShapeNames ==
  {"EyeBlinkLeft", "EyeBlinkRight", "EyeLookOutLeft", "EyeLookInLeft",
   "EyeLookUpLeft", "EyeLookDownLeft", "JawOpen", "BrowOuterUpLeft",
   "BrowDownLeft", "BrowOuterUpRight", "BrowDownRight"}

\* Raw coefficients: absent, below the range, inside it, above it.
RawCoefficients ==
  {NoCoefficient, Coefficient(-(Unit \div 5)), Coefficient(Unit \div 2),
   Coefficient(Unit + Unit \div 5)}

\* The blend shapes of a resting face, with the blinks and the jaw as given.
ShapesWith(blinkL, blinkR, jaw) ==
  [n \in ShapeNames |->
     CASE n = "EyeBlinkLeft" -> blinkL
       [] n = "EyeBlinkRight" -> blinkR
       [] n = "JawOpen" -> jaw
       [] OTHER -> NoCoefficient]

RestPose ==
  [pitch |-> Angle(0, AngleRadius), yaw |-> Angle(0, AngleRadius),
   roll |-> Angle(0, AngleRadius)]

\* Face anchors: every head pose with a resting face, and the head at rest
\* with every combination of raw blink and jaw coefficients, and an anchor
\* without blend shapes.
Anchors ==
  {[pose |-> p, Transform |-> RotationOf(p), hasShapes |-> TRUE,
    BlendShapes |-> ShapesWith(NoCoefficient, NoCoefficient, NoCoefficient)] :
     p \in Poses}
  \cup
  {[pose |-> RestPose, Transform |-> RotationOf(RestPose), hasShapes |-> h,
    BlendShapes |-> ShapesWith(l, r, j)] :
     l \in RawCoefficients, r \in RawCoefficients, j \in RawCoefficients,
     h \in BOOLEAN}

NoFaceData == [raised |-> FALSE]

\* The FaceTrackingData ProcessFaceAnchor builds. The angles stay in the
\* circle representation (the code scales radians to degrees).
FaceDataOf(faceAnchor) ==
  LET blendShapes == faceAnchor.BlendShapes
      e == ExtractEulerAngles(faceAnchor.Transform)
  IN [raised   |-> TRUE,
      AngleX   |-> e.yaw,
      AngleY   |-> e.pitch,
      AngleZ   |-> e.roll,
      EyeOpenL |-> Unit - OrZero(blendShapes["EyeBlinkLeft"]),
      EyeOpenR |-> Unit - OrZero(blendShapes["EyeBlinkRight"]),
      EyeBallX |-> OrZero(blendShapes["EyeLookOutLeft"])
                     - OrZero(blendShapes["EyeLookInLeft"]),
      EyeBallY |-> OrZero(blendShapes["EyeLookUpLeft"])
                     - OrZero(blendShapes["EyeLookDownLeft"]),
      MouthOpen |-> OrZero(blendShapes["JawOpen"]),
      BrowL    |-> OrZero(blendShapes["BrowOuterUpLeft"])
                     - OrZero(blendShapes["BrowDownLeft"]),
      BrowR    |-> OrZero(blendShapes["BrowOuterUpRight"])
                     - OrZero(blendShapes["BrowDownRight"])]

InitAnchor ==
  /\ anchor = [pose |-> RestPose, Transform |-> RotationOf(RestPose),
               hasShapes |-> FALSE,
               BlendShapes |-> ShapesWith(NoCoefficient, NoCoefficient,
                                          NoCoefficient)]
  /\ faceData = NoFaceData

\* ProcessFaceAnchor(faceAnchor), called by the session delegate for every
\* updated face anchor.
ProcessFaceAnchor(faceAnchor) ==
  /\ anchor' = faceAnchor
  /\ faceData' = IF faceAnchor.hasShapes THEN FaceDataOf(faceAnchor)
                 ELSE NoFaceData
  /\ op' = "ProcessFaceAnchor"
  /\ UNCHANGED <<viewerVars, sinkVars, hitVars, viewportVars, layoutVars,
                 containerVars, bridgeVars, hookVars, eventVars, nativeVars,
                 homeVars, steadyVars, cameraVars, dualVars, settingsVars>>

NextAnchor ==
  \/ \E a \in Anchors : ProcessFaceAnchor(a)

\* ------------------------------------------------------------ steady stream
\* The lerp factors the page may pass to updateFaceData, in tenths.
Factors == {3, 5, 10}

\* The target updateFaceData smooths towards for a frame.
SinkTarget(data) ==
  [data EXCEPT !.angleX = ScaleAngle(data.angleX),
               !.angleY = ScaleAngle(data.angleY),
               !.angleZ = ScaleAngle(data.angleZ)]

\* distance * (1 - factor)^n, one multiplication at a time.
RECURSIVE Decay(_, _, _)
Decay(distance, factorTenths, n) ==
  IF n = 0 THEN distance
  ELSE Decay((distance * (10 - factorTenths)) \div 10, factorTenths, n - 1)

InitSteady ==
  /\ steady = [frame |-> DefaultParams, factor |-> LerpFactorTenths,
               start |-> DefaultParams]
  /\ nsteady = 0
  /\ nstreams = 0

\* The tracking source starts to deliver one and the same frame, and the page
\* passes each to updateFaceData with its lerpFactor.
StreamStarts(data, factor) ==
  /\ mounted
  /\ nstreams < MaxStreams
  /\ nstreams' = nstreams + 1
  /\ steady' = [frame |-> data, factor |-> factor, start |-> paramsRef]
  /\ nsteady' = 0
  /\ tracking' = TRUE
  /\ op' = "streamStarts"
  /\ UNCHANGED <<paramsRef, lastWrite, nframes, viewerVars, hitVars,
                 viewportVars, layoutVars, containerVars, bridgeVars,
                 hookVars, eventVars, nativeVars, homeVars, anchorVars,
                 cameraVars, dualVars, settingsVars>>

\* updateFaceData(data, factor) for the next frame of the stream.
SteadyFrame ==
  /\ mounted
  /\ tracking
  /\ nstreams > 0
  /\ nsteady < MaxSteady
  /\ nsteady' = nsteady + 1
  /\ paramsRef' = SinkParams(modelRef, paramsRef, steady.frame, steady.factor)
  /\ lastWrite' = SinkWrites(modelRef)
  /\ modelXf' = XfAfterFrame(modelXf, paramsRef')
  /\ op' = "steadyFrame"
  /\ UNCHANGED <<tracking, nframes, steady, nstreams, viewerVars, hitVars,
                 viewportVars, screen, containerVars, bridgeVars, hookVars,
                 eventVars, nativeVars, homeVars, anchorVars, cameraVars,
                 dualVars, settingsVars>>

NextSteady ==
  \/ \E d \in Frames, f \in Factors : StreamStarts(d, f)
  \/ SteadyFrame

\* ------------------------------------------------------ camera tracking hook
InitCamera ==
  /\ faceLandmarkerRef = FALSE
  /\ animationFrameRef = 0
  /\ rafPending = {}
  /\ rafIssued = 0
  /\ srcObject = 0
  /\ streamsIssued = 0
  /\ liveStreams = {}
  /\ webIsTracking = FALSE
  /\ webError = FALSE
  /\ acquiring = 0
  /\ playing = 0
  /\ stopReturned = FALSE
  /\ nresults = 0
  /\ nwebstarts = 0

\* initialize() after its awaits: the landmarker was created, or creating it
\* threw.
WebInitialize(created) ==
  /\ ~faceLandmarkerRef
  /\ faceLandmarkerRef' = created
  /\ webError' = (webError \/ ~created)
  /\ op' = "webInitialize"
  /\ UNCHANGED <<animationFrameRef, rafPending, rafIssued, srcObject,
                 streamsIssued, liveStreams, webIsTracking, acquiring, playing,
                 stopReturned, nresults, nwebstarts, viewerVars, sinkVars,
                 hitVars, viewportVars, layoutVars, containerVars, bridgeVars,
                 hookVars, eventVars, nativeVars, homeVars, anchorVars,
                 steadyVars, dualVars, settingsVars>>

\* video.readyState >= 2: never without a source.
VideoReady(src, loaded) == src # 0 /\ loaded

\* detect reaches onResult(trackingResult): the video has data and a face was
\* found (the page always passes onResult).
DetectReports(src, loaded, face) == VideoReady(src, loaded) /\ face

\* The body of stopTracking on the state st.
StopBody(st) ==
  [st EXCEPT
     !.rafPending = IF st.animationFrameRef # 0
                      THEN st.rafPending \ {st.animationFrameRef}
                      ELSE st.rafPending,
     !.animationFrameRef = 0,
     !.liveStreams = st.liveStreams \ {st.srcObject},
     !.srcObject = 0,
     !.webIsTracking = FALSE,
     !.stopReturned = TRUE]

\* One run of detect on the state st: `loaded` is whether the video element
\* has data for its source, `face` whether a face was found, `stops` whether
\* the onResult callback calls stopTracking. videoRef.current and
\* faceLandmarkerRef.current are set. Every path but the first return ends in
\* animationFrameRef.current = requestAnimationFrame(detect).
DetectBody(st, loaded, face, stops) ==
  LET reported == DetectReports(st.srcObject, loaded, face)
      a == IF reported
             THEN [st EXCEPT !.nresults = st.nresults + 1]
             ELSE st
      b == IF reported /\ stops THEN StopBody(a) ELSE a
  IN [b EXCEPT !.rafIssued = b.rafIssued + 1,
               !.animationFrameRef = b.rafIssued + 1,
               !.rafPending = b.rafPending \cup {b.rafIssued + 1}]

\* The fields of the hook's state the bodies above work on.
CameraState ==
  [animationFrameRef |-> animationFrameRef, rafPending |-> rafPending,
   rafIssued |-> rafIssued, srcObject |-> srcObject,
   liveStreams |-> liveStreams, webIsTracking |-> webIsTracking,
   stopReturned |-> stopReturned, nresults |-> nresults]

SetCameraState(st) ==
  /\ animationFrameRef' = st.animationFrameRef
  /\ rafPending' = st.rafPending
  /\ rafIssued' = st.rafIssued
  /\ srcObject' = st.srcObject
  /\ liveStreams' = st.liveStreams
  /\ webIsTracking' = st.webIsTracking
  /\ stopReturned' = st.stopReturned
  /\ nresults' = st.nresults

\* startTracking up to `await getUserMedia`, or to its return when the
\* landmarker is missing.
WebStartTracking ==
  /\ nwebstarts < MaxWebStarts
  /\ nwebstarts' = nwebstarts + 1
  /\ stopReturned' = FALSE
  /\ IF ~faceLandmarkerRef
       THEN /\ webError' = TRUE
            /\ UNCHANGED acquiring
       ELSE /\ acquiring' = acquiring + 1
            /\ UNCHANGED webError
  /\ op' = "webStartTracking"
  /\ UNCHANGED <<faceLandmarkerRef, animationFrameRef, rafPending, rafIssued,
                 srcObject, streamsIssued, liveStreams, webIsTracking, playing,
                 nresults, viewerVars, sinkVars, hitVars, viewportVars,
                 layoutVars, containerVars, bridgeVars, hookVars, eventVars,
                 nativeVars, homeVars, anchorVars, steadyVars, dualVars,
                 settingsVars>>

\* getUserMedia settles: with a stream, which becomes the video's source
\* before `await video.play()`, or with a rejection, which the catch reports.
CameraAnswered(granted) ==
  /\ acquiring > 0
  /\ acquiring' = acquiring - 1
  /\ IF granted
       THEN /\ streamsIssued' = streamsIssued + 1
            /\ liveStreams' = liveStreams \cup {streamsIssued + 1}
            /\ srcObject' = streamsIssued + 1
            /\ playing' = playing + 1
            /\ UNCHANGED webError
       ELSE /\ webError' = TRUE
            /\ UNCHANGED <<streamsIssued, liveStreams, srcObject, playing>>
  /\ op' = "cameraAnswered"
  /\ UNCHANGED <<faceLandmarkerRef, animationFrameRef, rafPending, rafIssued,
                 webIsTracking, stopReturned, nresults, nwebstarts, viewerVars,
                 sinkVars, hitVars, viewportVars, layoutVars, containerVars,
                 bridgeVars, hookVars, eventVars, nativeVars, homeVars,
                 anchorVars, steadyVars, dualVars, settingsVars>>

\* video.play() settles: startTracking sets isTracking and runs detect once,
\* or its catch reports the rejection.
PlaySettled(played, loaded, face, stops) ==
  /\ playing > 0
  /\ playing' = playing - 1
  /\ rafIssued < MaxRaf
  /\ nresults < MaxResults
  /\ IF played
       THEN /\ SetCameraState(
                 DetectBody([CameraState EXCEPT !.webIsTracking = TRUE],
                            loaded, face, stops))
            /\ UNCHANGED webError
       ELSE /\ webError' = TRUE
            /\ UNCHANGED <<animationFrameRef, rafPending, rafIssued,
                           srcObject, liveStreams, webIsTracking,
                           stopReturned, nresults>>
  /\ op' = IF played THEN "webTrackingStarted" ELSE "playRejected"
  /\ UNCHANGED <<faceLandmarkerRef, streamsIssued, acquiring, nwebstarts,
                 viewerVars, sinkVars, hitVars, viewportVars, layoutVars,
                 containerVars, bridgeVars, hookVars, eventVars, nativeVars,
                 homeVars, anchorVars, steadyVars, dualVars, settingsVars>>

\* The browser runs a pending animation-frame callback: detect.
AnimationFrame(id, loaded, face, stops) ==
  /\ id \in rafPending
  /\ rafIssued < MaxRaf
  /\ nresults < MaxResults
  /\ SetCameraState(
       DetectBody([CameraState EXCEPT !.rafPending = rafPending \ {id}],
                  loaded, face, stops))
  /\ op' = "detect"
  /\ UNCHANGED <<faceLandmarkerRef, streamsIssued, webError, acquiring,
                 playing, nwebstarts, viewerVars, sinkVars, hitVars,
                 viewportVars, layoutVars, containerVars, bridgeVars, hookVars,
                 eventVars, nativeVars, homeVars, anchorVars, steadyVars,
                 dualVars, settingsVars>>

\* stopTracking, called by the page.
WebStopTracking ==
  /\ SetCameraState(StopBody(CameraState))
  /\ op' = "webStopTracking"
  /\ UNCHANGED <<faceLandmarkerRef, streamsIssued, webError, acquiring,
                 playing, nwebstarts, viewerVars, sinkVars, hitVars,
                 viewportVars, layoutVars, containerVars, bridgeVars, hookVars,
                 eventVars, nativeVars, homeVars, anchorVars, steadyVars,
                 dualVars, settingsVars>>

NextCamera ==
  \/ \E created \in BOOLEAN : WebInitialize(created)
  \/ WebStartTracking
  \/ \E granted \in BOOLEAN : CameraAnswered(granted)
  \/ \E played, loaded, face, stops \in BOOLEAN :
       PlaySettled(played, loaded, face, stops)
  \/ \E id \in 1..MaxRaf, loaded, face, stops \in BOOLEAN :
       AnimationFrame(id, loaded, face, stops)
  \/ WebStopTracking

\* ------------------------------------------------- home page tracking toggles
\* The page's two tracking buttons. One toggle runs at a time here: the next
\* is pressed when the previous handler has returned.
InitDual ==
  /\ trackingMode = "none"
  /\ togglePc = "idle"
  /\ ntoggles = 0

\* What is left unchanged by every step of a toggle.
DualFrame ==
  UNCHANGED <<isAvailable, hwv, call, res, lastRaw, ncalls, stalled,
              streamsIssued, playing, webError, viewerVars, sinkVars,
              hitVars, viewportVars, layoutVars, containerVars, eventVars,
              nativeVars, homeVars, anchorVars, steadyVars, settingsVars>>

CameraUntouched ==
  UNCHANGED <<faceLandmarkerRef, animationFrameRef, rafPending, rafIssued,
              srcObject, liveStreams, webIsTracking, acquiring, stopReturned,
              nresults, nwebstarts>>

\* toggleWebTracking from `if (!isWebReady)` on, up to the next await:
\* initWebTracking() when the landmarker is missing, else startWebTracking().
WebStartFrom(ready) ==
  IF ~ready
    THEN /\ togglePc' = "webInit"
         /\ UNCHANGED <<acquiring, stopReturned, nwebstarts>>
    ELSE /\ togglePc' = "webStarting"
         /\ acquiring' = acquiring + 1
         /\ stopReturned' = FALSE
         /\ nwebstarts' = nwebstarts + 1

\* toggleNativeTracking up to its await.
ToggleNativeTracking ==
  /\ togglePc = "idle"
  /\ ntoggles < MaxToggles
  /\ ntoggles' = ntoggles + 1
  /\ isNativeEnv(hwv)
  /\ invoked' = invoked + 1
  /\ nhook' = nhook + 1
  /\ IF isTracking
       THEN \* await stopNativeTracking()
            /\ hookPending' = hookPending \cup {"StopFaceTracking"}
            /\ togglePc' = "nativeStopping"
            /\ CameraUntouched
            /\ UNCHANGED error
       ELSE \* stopWebTracking() if web tracking is on, then
            \* await startNativeTracking()
            /\ IF webIsTracking
                 THEN /\ SetCameraState(StopBody(CameraState))
                      /\ UNCHANGED <<faceLandmarkerRef, acquiring, nwebstarts>>
                 ELSE CameraUntouched
            /\ error' = JNull
            /\ hookPending' = hookPending \cup {"StartFaceTracking"}
            /\ togglePc' = "nativeStarting"
  /\ op' = "toggleNativeTracking"
  /\ UNCHANGED <<isAvailable, isTracking, trackingMode, hwv, call, res,
                 lastRaw, ncalls, stalled, streamsIssued, playing, webError,
                 viewerVars, sinkVars, hitVars, viewportVars, layoutVars,
                 containerVars, eventVars, nativeVars, homeVars, anchorVars,
                 steadyVars, settingsVars>>

\* The StopFaceTracking call of toggleNativeTracking settles: stopTracking
\* clears isTracking when InvokeDotNet resolved and only logs when it
\* rejected; then setTrackingMode("none").
NativeStopSettled(resolved) ==
  /\ togglePc = "nativeStopping"
  /\ hookPending' = hookPending \ {"StopFaceTracking"}
  /\ isTracking' = IF resolved THEN FALSE ELSE isTracking
  /\ trackingMode' = "none"
  /\ togglePc' = "idle"
  /\ op' = "nativeStopSettled"
  /\ CameraUntouched
  /\ DualFrame
  /\ UNCHANGED <<error, nhook, invoked, ntoggles>>

\* The StartFaceTracking call of toggleNativeTracking settles: with
\* success, with a failure result, or with a rejection.
NativeStartSettled(outcome) ==
  /\ togglePc = "nativeStarting"
  /\ hookPending' = hookPending \ {"StartFaceTracking"}
  /\ isTracking' = IF outcome = "success" THEN TRUE ELSE isTracking
  /\ error' = CASE outcome = "success" -> error
                [] outcome = "failure" -> JString("Failed to start tracking")
                [] OTHER -> JString("Unknown error")
  /\ trackingMode' = IF outcome = "success" THEN "native" ELSE trackingMode
  /\ togglePc' = "idle"
  /\ op' = "nativeStartSettled"
  /\ CameraUntouched
  /\ DualFrame
  /\ UNCHANGED <<nhook, invoked, ntoggles>>

\* toggleWebTracking up to its first await, or to its end.
ToggleWebTracking ==
  /\ togglePc = "idle"
  /\ ntoggles < MaxToggles
  /\ ntoggles' = ntoggles + 1
  /\ IF webIsTracking
       THEN \* stopWebTracking(); setTrackingMode("none")
            /\ SetCameraState(StopBody(CameraState))
            /\ trackingMode' = "none"
            /\ togglePc' = "idle"
            /\ UNCHANGED <<faceLandmarkerRef, acquiring, nwebstarts,
                           hookPending, invoked, nhook>>
     ELSE IF isTracking /\ isNativeEnv(hwv)
       THEN \* await stopNativeTracking()
            /\ hookPending' = hookPending \cup {"StopFaceTracking"}
            /\ invoked' = invoked + 1
            /\ nhook' = nhook + 1
            /\ togglePc' = "webStoppingNative"
            /\ CameraUntouched
            /\ UNCHANGED trackingMode
     ELSE /\ WebStartFrom(faceLandmarkerRef)
          /\ UNCHANGED <<faceLandmarkerRef, animationFrameRef, rafPending,
                         rafIssued, srcObject, liveStreams, webIsTracking,
                         nresults, trackingMode, hookPending, invoked, nhook>>
  /\ op' = "toggleWebTracking"
  /\ UNCHANGED <<isAvailable, isTracking, error, hwv, call, res, lastRaw,
                 ncalls, stalled, streamsIssued, playing, webError, viewerVars,
                 sinkVars, hitVars, viewportVars, layoutVars, containerVars,
                 eventVars, nativeVars, homeVars, anchorVars, steadyVars,
                 settingsVars>>

\* The StopFaceTracking call of toggleWebTracking settles, and the handler
\* goes on to the web source whatever the outcome.
WebStopNativeSettled(resolved) ==
  /\ togglePc = "webStoppingNative"
  /\ hookPending' = hookPending \ {"StopFaceTracking"}
  /\ isTracking' = IF resolved THEN FALSE ELSE isTracking
  /\ WebStartFrom(faceLandmarkerRef)
  /\ op' = "webStopNativeSettled"
  /\ DualFrame
  /\ UNCHANGED <<faceLandmarkerRef, animationFrameRef, rafPending, rafIssued,
                 srcObject, liveStreams, webIsTracking, nresults, error,
                 nhook, invoked, trackingMode, ntoggles>>

\* initWebTracking() settles; startWebTracking() follows: it returns at once
\* when the landmarker is still missing, and the handler sets the mode.
WebInitSettled(created) ==
  /\ togglePc = "webInit"
  /\ faceLandmarkerRef' = created
  /\ IF created
       THEN /\ WebStartFrom(TRUE)
            /\ UNCHANGED <<webError, trackingMode>>
       ELSE /\ webError' = TRUE
            /\ stopReturned' = FALSE
            /\ nwebstarts' = nwebstarts + 1
            /\ trackingMode' = "web"
            /\ togglePc' = "idle"
            /\ UNCHANGED acquiring
  /\ op' = "webInitSettled"
  /\ UNCHANGED <<animationFrameRef, rafPending, rafIssued, srcObject,
                 liveStreams, webIsTracking, streamsIssued, playing, nresults,
                 ntoggles, hookVars, bridgeVars, viewerVars, sinkVars, hitVars,
                 viewportVars, layoutVars, containerVars, eventVars,
                 nativeVars, homeVars, anchorVars, steadyVars, settingsVars>>

\* startWebTracking() has returned: setTrackingMode("web").
WebStartReturned ==
  /\ togglePc = "webStarting"
  /\ acquiring = 0
  /\ playing = 0
  /\ trackingMode' = "web"
  /\ togglePc' = "idle"
  /\ op' = "webStartReturned"
  /\ UNCHANGED <<ntoggles, cameraVars, hookVars, bridgeVars, viewerVars,
                 sinkVars, hitVars, viewportVars, layoutVars, containerVars,
                 eventVars, nativeVars, homeVars, anchorVars, steadyVars,
                 settingsVars>>

NextDual ==
  \/ ToggleNativeTracking
  \/ \E resolved \in BOOLEAN : NativeStopSettled(resolved)
  \/ \E outcome \in {"success", "failure", "rejected"} :
       NativeStartSettled(outcome)
  \/ ToggleWebTracking
  \/ \E resolved \in BOOLEAN : WebStopNativeSettled(resolved)
  \/ \E created \in BOOLEAN : WebInitSettled(created)
  \/ \E granted \in BOOLEAN : CameraAnswered(granted)
  \/ \E played, loaded, face \in BOOLEAN :
       PlaySettled(played, loaded, face, FALSE)
  \/ WebStartReturned

\* ------------------------------------------- hook and native service, linked
\* The hook's commands carried out by the native service: InvokeDotNet runs
\* the bridge method up to its first await or its return, and resolves with
\* the object the method returned.
OtherViews ==
  UNCHANGED <<viewerVars, sinkVars, hitVars, viewportVars, layoutVars,
              containerVars, eventVars, homeVars, anchorVars, steadyVars,
              cameraVars, dualVars, settingsVars>>

\* The object StartFaceTracking returned, as the hook reads it.
StartResult(reply) ==
  NonString([t |-> "object",
             success |-> IF reply.success THEN JTrue ELSE JFalse,
             error |-> IF reply.error.isNull THEN JNull
                       ELSE JString(reply.error.parts[1]),
             available |-> Absent])

\* The object IsFaceTrackingAvailable returned.
AvailableResult(p) ==
  NonString([t |-> "object", success |-> Absent, error |-> Absent,
             available |-> IF IsSupported(p) THEN JTrue ELSE JFalse])

\* What StopFaceTracking resolves with carries none of the fields read.
VoidResult ==
  NonString([t |-> "object", success |-> Absent, error |-> Absent,
             available |-> Absent])

\* startTracking of the hook, and MauiBridge.StartFaceTracking up to its
\* return or to the await of the permission.
LinkedStart ==
  /\ nhook < MaxHookCalls
  /\ isNativeEnv(hwv)
  /\ "StartFaceTracking" \notin hookPending
  /\ sessionsCreated + requesting < MaxSessions
  /\ nhook' = nhook + 1
  /\ error' = JNull
  /\ hookPending' = hookPending \cup {"StartFaceTracking"}
  /\ invoked' = invoked + 1
  /\ faceTrackingService' = TRUE
  /\ stopRequested' = FALSE
  /\ IF platform = "other"
       THEN /\ startReply' = StartReplyFor(FALSE)
            /\ UNCHANGED requesting
     ELSE IF ReturnsEarly(IsTracking)
       THEN /\ startReply' = StartReplyFor(TRUE)
            /\ UNCHANGED requesting
     ELSE IF ~IsSupported(platform)
       THEN /\ startReply' = StartReplyFor(FALSE)
            /\ UNCHANGED requesting
     ELSE /\ requesting' = requesting + 1
          /\ startReply' = NoReply
  /\ op' = "linkedStart"
  /\ OtherViews
  /\ UNCHANGED <<isAvailable, isTracking, hwv, call, res, lastRaw, ncalls,
                 stalled, platform, IsTracking, arSession, sessionsCreated,
                 alive, lastAnswer, webView, captured, mainQueue, sent>>

\* stopTracking of the hook, and MauiBridge.StopFaceTracking.
LinkedStop ==
  /\ nhook < MaxHookCalls
  /\ isNativeEnv(hwv)
  /\ "StopFaceTracking" \notin hookPending
  /\ nhook' = nhook + 1
  /\ hookPending' = hookPending \cup {"StopFaceTracking"}
  /\ invoked' = invoked + 1
  /\ stopRequested' = TRUE
  /\ IF faceTrackingService
       THEN /\ alive' = alive \ {arSession}
            /\ arSession' = 0
            /\ IsTracking' = FALSE
       ELSE UNCHANGED <<alive, arSession, IsTracking>>
  /\ op' = "linkedStop"
  /\ OtherViews
  /\ UNCHANGED <<isAvailable, isTracking, error, hwv, call, res, lastRaw,
                 ncalls, stalled, platform, faceTrackingService,
                 sessionsCreated, requesting, startReply, lastAnswer, webView,
                 captured, mainQueue, sent>>

\* The page with the hook unmounts and mounts again: the hook's state starts
\* over, the effect's cleanup only removes the listener, and the new effect
\* calls checkAvailability.
HookRemount ==
  /\ nhook < MaxHookCalls
  /\ hookPending = {}
  /\ nhook' = nhook + 1
  /\ isTracking' = FALSE
  /\ error' = JNull
  /\ isAvailable' = FALSE
  /\ IF isNativeEnv(hwv)
       THEN /\ hookPending' = {"IsFaceTrackingAvailable"}
            /\ invoked' = invoked + 1
       ELSE UNCHANGED <<hookPending, invoked>>
  /\ op' = "hookRemount"
  /\ OtherViews
  /\ UNCHANGED <<hwv, call, res, lastRaw, ncalls, stalled, nativeVars,
                 settingsVars>>

\* The answer of a finished command reaches the hook.
Replied(m) ==
  /\ m \in hookPending
  /\ m = "StartFaceTracking" => (startReply.replied /\ requesting = 0)

ResultOf(m) ==
  CASE m = "StartFaceTracking" -> StartResult(startReply)
    [] m = "IsFaceTrackingAvailable" -> AvailableResult(platform)
    [] OTHER -> VoidResult

NextLinked ==
  \/ LinkedStart
  \/ LinkedStop
  \/ HookRemount
  \/ \E granted \in BOOLEAN, threw \in BOOLEAN :
       PermissionAnswered(granted, threw)
  \/ \E m \in HookMethods : Replied(m) /\ HookResolved(m, ResultOf(m))
  \/ \E m \in HookMethods, e \in Thrown : Replied(m) /\ HookRejected(m, e)

\* ------------------------------------------------------------ specifications
\* The state after the first render and its effects, in the native host.
Init ==
  /\ op = "init"
  /\ InitViewer
  /\ InitSink
  /\ InitHit
  /\ InitViewport
  /\ InitLayout
  /\ InitContainer
  /\ InitBridge
  /\ InitHook
  /\ InitEvents
  /\ InitHome
  /\ InitAnchor
  /\ InitSteady
  /\ InitCamera
  /\ InitDual
  /\ InitSettings
  /\ InitNative
  /\ hwv = "bridge"

\* The same state in any host: a browser, a host without the bridge function,
\* the native host.
InitAnyHost ==
  /\ op = "init"
  /\ InitViewer
  /\ InitSink
  /\ InitHit
  /\ InitViewport
  /\ InitLayout
  /\ InitContainer
  /\ InitBridge
  /\ InitHook
  /\ InitEvents
  /\ InitHome
  /\ InitAnchor
  /\ InitSteady
  /\ InitCamera
  /\ InitDual
  /\ InitSettings
  /\ InitNative
  /\ hwv \in HostStates

\* Commands of the two services against every answer of the bridge.
SpecBridge == InitAnyHost /\ [][NextBridge]_vars

\* The hook's three functions, and the services' commands up to the bridge,
\* in any host.
NextHookAndCommands ==
  \/ NextHook
  \/ \E c \in Commands : Command(c)

SpecHook == InitAnyHost /\ [][NextHookAndCommands]_vars

\* The native side on any platform, with or without the web view attached.
InitAnyPlatform ==
  /\ op = "init"
  /\ InitViewer
  /\ InitSink
  /\ InitHit
  /\ InitViewport
  /\ InitLayout
  /\ InitContainer
  /\ InitBridge
  /\ InitHook
  /\ InitEvents
  /\ InitHome
  /\ InitAnchor
  /\ InitSteady
  /\ InitCamera
  /\ InitDual
  /\ InitSettings
  /\ hwv = "bridge"
  /\ platform \in Platforms
  /\ webView \in BOOLEAN
  /\ InitService

\* The native face tracking service on every platform.
SpecNative == InitAnyPlatform /\ [][NextNative]_vars

\* The home page: its model, its resize handler and its face data callback.
SpecHome == Init /\ [][NextHome]_vars

\* The native extractor, fed face anchors.
SpecAnchor == Init /\ [][NextAnchor]_vars

\* The command channel with every step the code can take eventually taken.
SpecBridgeLive == InitAnyHost /\ [][NextBridge]_vars /\ WF_vars(NextBridge)

Loading ==
  \/ \E imported \in BOOLEAN : InitRendererDone(imported)
  \/ \E t \in Tasks : LoadAfterInit(t)
  \/ \E t \in Tasks : LoadImported(t)
  \/ \E t \in Tasks : LoadResolved(t)
  \/ \E t \in Tasks, e \in BOOLEAN : LoadRejected(t, e)
  \/ \E u \in Urls : ChangeModelUrl(u)
  \/ Unmount

\* The container-based viewer, from the state in which PIXI is ready and its
\* handlers are bound.
SpecContainer == Init /\ [][NextContainer]_vars

\* Model swaps interleaved with the face-data stream.
NextSink ==
  \/ Loading
  \/ \E d \in Frames : UpdateFaceData(d)
  \/ StartTracking
  \/ StopTracking

SpecSink == Init /\ [][NextSink]_vars

\* Model swaps interleaved with hit callbacks.
NextHit ==
  \/ Loading
  \/ \E h \in Tasks, a \in HitAreas : Hit(h, a)

SpecHit == Init /\ [][NextHit]_vars

\* The viewer once the renderer is up and the first model is installed.
InitLoaded ==
  /\ op = "loadResolved"
  /\ mounted = TRUE
  /\ appRef = "app"
  /\ initPc = "done"
  /\ modelUrl = "hiyori"
  /\ loads = [t \in Tasks |->
                IF t = 1
                  THEN [pc |-> "done", url |-> "hiyori", cancelled |-> FALSE]
                  ELSE NoTask]
  /\ nextTask = 2
  /\ handle = [t \in Tasks |-> IF t = 1 THEN "live" ELSE "none"]
  /\ stage = {1}
  /\ modelRef = 1
  /\ cbs = [t \in Tasks |-> IF t = 1 THEN "onLoad" ELSE "none"]
  /\ initErr = FALSE
  /\ InitSink
  /\ InitHit
  /\ InitViewport
  /\ InitContainer
  /\ InitBridge
  /\ InitHook
  /\ InitEvents
  /\ InitHome
  /\ InitAnchor
  /\ InitSteady
  /\ InitCamera
  /\ InitDual
  /\ InitSettings
  /\ InitNative
  /\ hwv = "bridge"
  /\ screen = [w |-> 400, h |-> 800]
  /\ modelXf = [scale |-> 15, rotation |-> 0, x |-> 200, y |-> 400]

\* Pointer, wheel, reset and prop events on the loaded viewer.
SpecViewport == InitLoaded /\ [][NextViewport]_vars

\* Events of the native side on the loaded viewer.
SpecEvents == InitLoaded /\ [][NextEvents]_vars

SpecDrag == InitLoaded /\ [][NextDrag]_vars

SpecZoom == InitLoaded /\ [][NextZoom]_vars

\* The loaded viewer with the tracking stream running beside pans, zoom-in
\* steps and resets: frames that turn the head, drags that start at the origin
\* of the canvas and move along the x axis, wheel events on the canvas.
NextTracked ==
  \/ \E e \in {q \in Events : q.x = 0 /\ ~q.controls} : PointerDown(e)
  \/ \E e \in {q \in Points : q.y = 0} : PointerMove(e)
  \/ PointerUp
  \/ ResetView
  \/ \E e \in {w \in WheelEvents : ~w.controls} : Wheel(-1, e)
  \/ \E d \in {f \in Frames : f.angleX # 0} : UpdateFaceData(d)
  \/ StartTracking

SpecTracked == InitLoaded /\ [][NextTracked]_vars

\* The loaded viewer fed streams that repeat one frame.
SpecSteady == InitLoaded /\ [][NextSteady]_vars

\* The camera-based tracking hook driven by the page and the browser.
SpecCamera == Init /\ [][NextCamera]_vars

\* The home page's two tracking toggles in the native host.
SpecDual == Init /\ [][NextDual]_vars

\* The hook in the native host with the native service behind it.
SpecLinked == Init /\ [][NextLinked]_vars

SpecSettings == Init /\ [][NextSettings]_vars

\* The mounted viewer while the page changes the model: every await of a
\* load settles in the end.
NextModelChanges ==
  \/ \E imported \in BOOLEAN : InitRendererDone(imported)
  \/ \E t \in Tasks : LoadAfterInit(t)
  \/ \E t \in Tasks : LoadImported(t)
  \/ \E t \in Tasks : LoadResolved(t)
  \/ \E t \in Tasks, e \in BOOLEAN : LoadRejected(t, e)
  \/ \E u \in Urls : ChangeModelUrl(u)

SpecModelChanges ==
  Init /\ [][NextModelChanges]_vars /\ WF_vars(NextModelChanges)

\* ------------------------------------------------------------ claims
Range(seq) == {seq[i] : i \in 1..Len(seq)}

\* C1: every updateFaceData call, under any interleaving with loadModel, either
\* is skipped or writes to a handle that is loaded and not destroyed.
C1_WritesTargetLiveHandle ==
  op = "updateFaceData" =>
    (lastWrite.target = 0 \/ handle[lastWrite.target] = "live")

\* A frame written to the new model after a swap destroyed the old one.
C1_Witness ==
  /\ op = "updateFaceData"
  /\ lastWrite.target > 1
  /\ handle[lastWrite.target] = "live"
  /\ \E h \in Tasks : handle[h] = "destroyed"

\* C2: after any wheel or pinch step the zoom of the container-based viewer is
\* a number within [0.1, 5].
C2_ZoomWithinRange ==
  op \in {"cWheel", "cTouchMove"} =>
    (zoomRef.kind = "num" /\ 100 <= zoomRef.v /\ zoomRef.v <= 5000)

\* C2, main viewer: after a wheel event that handleWheel acts on, viewScale is
\* within [minScale, maxScale].
C2_MainWheelClamped ==
  (op = "wheel" /\ props.enableZoom /\ ~ptr.controls) =>
    (DEFAULT_MIN_SCALE <= viewScale /\ viewScale <= DEFAULT_MAX_SCALE)

\* C3: resetView leaves the view state and transformRef at exactly the
\* baseline the props supply.
C3_ResetRestoresBaseline ==
  op = "resetView" =>
    /\ viewScale = props.scale
    /\ viewOffset = [x |-> props.offsetX, y |-> props.offsetY]
    /\ transformRef = [scale |-> props.scale, rotation |-> props.rotation,
                       x |-> props.offsetX, y |-> props.offsetY]

\* A reset after a pan and a zoom, to a baseline other than the first.
C3_Witness ==
  /\ op = "resetView"
  /\ dragState.moved
  /\ nwheel > 0
  /\ props.scale = 210
  /\ transformRef = [scale |-> 210, rotation |-> 90, x |-> 10, y |-> -2]

\* C4: a pointer-move of a gesture that has not moved yet, less than 4 px from
\* the pointer-down position, leaves the offset alone and the gesture unmoved.
C4_SmallDragIsTap ==
  [][(/\ op' = "pointerMove"
      /\ dragState.active
      /\ ~dragState.moved
      /\ Abs(ptr'.x - dragState.startX) + Abs(ptr'.y - dragState.startY)
           < DRAG_THRESHOLD_PX)
     => (/\ viewOffset' = viewOffset
         /\ transformRef' = transformRef
         /\ ~dragState'.moved)]_vars

\* A gesture 3 px away from its start, still unmoved.
C4_Witness ==
  /\ op = "pointerMove"
  /\ dragState.active
  /\ ~dragState.moved
  /\ Abs(ptr.x - dragState.startX) + Abs(ptr.y - dragState.startY) = 3

\* C5: Dragging is entered only by a pointer-down outside the controls with
\* pan enabled, capturing the pointer and the current offset; it is left only
\* by pointer-up or pointer-leave, which always leave it; a pointer-move while
\* Idle does not change the offset.
C5_DragStateMachine ==
  [][/\ (~dragState.active /\ dragState'.active) =>
          (/\ op' = "pointerDown"
           /\ props.enablePan
           /\ ~ptr'.controls
           /\ dragState' = [active |-> TRUE, startX |-> ptr'.x,
                            startY |-> ptr'.y, baseX |-> viewOffset.x,
                            baseY |-> viewOffset.y, moved |-> FALSE])
     /\ (dragState.active /\ ~dragState'.active) =>
          op' \in {"pointerUp", "pointerLeave"}
     /\ op' \in {"pointerUp", "pointerLeave"} => ~dragState'.active
     /\ (op' = "pointerMove" /\ ~dragState.active) => viewOffset' = viewOffset
    ]_vars

\* A pointer-move far from the last start arrives while Idle, after a drag
\* that panned.
C5_Witness ==
  /\ op = "pointerMove"
  /\ ~dragState.active
  /\ dragState.moved
  /\ Abs(ptr.x - dragState.startX) + Abs(ptr.y - dragState.startY) > 4

\* C6: a hit callback dispatches exactly one motion, TapHead if the areas
\* contain "Head", else TapBody if they contain "Body", else Tap, whatever the
\* order of the names; with no model it dispatches nothing.
C6_OneMotionByPriority ==
  op = "hit" =>
    IF modelRef = 0
      THEN lastMotions = <<>>
      ELSE /\ Len(lastMotions) = 1
           /\ lastMotions[1].on = modelRef
           /\ lastMotions[1].group =
                CASE "Head" \in Range(lastHit) -> "TapHead"
                  [] "Head" \notin Range(lastHit) /\ "Body" \in Range(lastHit)
                       -> "TapBody"
                  [] OTHER -> "Tap"

\* A hit that names Body before Head plays the head motion.
C6_Witness ==
  /\ op = "hit"
  /\ lastHit = <<"Body", "Head">>
  /\ Len(lastMotions) = 1
  /\ lastMotions[1].group = "TapHead"

\* C7: in one update every write whose parameter the rig has is performed,
\* whichever other writes failed.
C7_EachWriteIndependent ==
  (op = "updateFaceData" /\ lastWrite.target # 0) =>
    lastWrite.ids = RigParams(loads[lastWrite.target].url)

\* C8: with modelRef null, updateFaceData writes no renderer parameter and
\* leaves the smoothed state as it was.
C8_NoOpWithoutModel ==
  [][(op' = "updateFaceData" /\ modelRef = 0) =>
       (paramsRef' = paramsRef /\ lastWrite' = NoWrite)]_vars

\* A frame dropped during a swap, after earlier frames moved the state.
C8_Witness ==
  /\ op = "updateFaceData"
  /\ modelRef = 0
  /\ lastWrite = NoWrite
  /\ paramsRef # DefaultParams

\* C9: after a tracking restart and after a model swap the smoothed state is
\* at its defaults.
C9_ResetOnRestartAndSwap ==
  op \in {"startTracking", "loadResolved"} => paramsRef = DefaultParams

\* C10: when InvokeDotNet resolved with a payload that is an object with a
\* string `error` property, the command's Result is a failure whose error is
\* that string, for invoke (whatever its schema says) and for invokeVoid.
C10_ErrorFieldIsFailure ==
  LET payload == IF lastRaw.js = "string" /\ ~lastRaw.json THEN Undefined
                 ELSE lastRaw.val
  IN (/\ op = "commandResolved"
      /\ payload.t = "object"
      /\ payload.error.k = "string")
     => (/\ ~res.error.isNull
         /\ res.error.parts = <<payload.error.s>>
         /\ res.data = JsNull)

\* StartFaceTracking answered {success: false, error: "unsupported"}, which
\* its schema accepts, resolves to the failure "unsupported".
C10_Witness ==
  /\ op = "commandResolved"
  /\ call.cmd.name = "StartFaceTracking"
  /\ lastRaw = Text([t |-> "object", success |-> JFalse,
                     error |-> JString("unsupported"), available |-> Absent])
  /\ res.error = Str(<<"unsupported">>)

\* The texts callMauiBridge reports when the link is absent.
NoChannelMessages ==
  { <<"Native Bridge not available">>, <<"HybridWebView not found">>,
    <<"HybridWebView bridge is not available">> }

\* The payload InvokeDotNet resolved with fails the schema of command c: it is
\* JSON, carries no string `error`, and schema.parse rejects it.
SchemaMismatch(c, raw) ==
  LET data == IF raw.js = "string" THEN raw ELSE JSONstringify(raw.val)
      p == JSONparse(data)
  IN /\ c.kind = "invoke"
     /\ ~p.threw
     /\ ~(p.val.t = "object" /\ p.val.error.k = "string")
     /\ SchemaParse(Schemas[c.schema], p.val).threw

C12_EveryCallCompletes == (call.pc = "awaiting") ~> (call.pc = "idle")

\* The two shapes of a Result: ok(data) has a null error; err(message) has a
\* message and null data.
IsOk(r) == DOMAIN r = {"data", "error"} /\ r.error.isNull
IsErr(r) == DOMAIN r = {"data", "error"} /\ ~r.error.isNull /\ r.data = JsNull

\* C20: whatever the bridge does (link absent, call rejects, text that is not
\* JSON, payload with an error field, schema mismatch, valid payload), invoke
\* and invokeVoid finish with a Result that is either ok(data) or
\* err(message); the promise they return never rejects.
C20_AlwaysAResult ==
  op \in {"commandResolved", "commandRejected", "commandNoChannel"} =>
    /\ call.pc = "idle"
    /\ IsOk(res) \/ IsErr(res)
    /\ ~(IsOk(res) /\ IsErr(res))

\* StopFaceTracking answered with text that is not JSON.
C20_Witness ==
  /\ op = "commandResolved"
  /\ call.cmd.kind = "invokeVoid"
  /\ lastRaw = NotJson
  /\ IsErr(res)
  /\ Head(res.error.parts) = "Bridge returned invalid JSON: "

\* C19: with window.HybridWebView absent, whatever is called and in whatever
\* order, InvokeDotNet is never called, nothing stays awaiting, isAvailable
\* stays false and isTracking never becomes true.
C19_InertWithoutLink ==
  hwv = "undefined" =>
    /\ invoked = 0
    /\ hookPending = {}
    /\ call.pc = "idle"
    /\ ~isAvailable
    /\ ~isTracking

\* Without the link: the hook's functions were called three times, the last
\* one startTracking, and a service command was sent as well.
C19_Witness ==
  /\ hwv = "undefined"
  /\ nhook = MaxHookCalls
  /\ ncalls > 0
  /\ op = "startTrackingInert"
  /\ error = JString("Not running in MAUI environment")

\* A faceTracking event whose data is a complete frame.
ValidEvent(m) == Delivers(m) /\ m.data.missing = {}

\* C13: an event of another type, with malformed JSON or with malformed data
\* never reaches the data consumer, and a valid faceTracking event reaches it
\* and leaves every smoothed parameter a number.
C13_BadEventsDropped ==
  op = "handleMessage" =>
    /\ ~ValidEvent(lastMsg) => ~consumed
    /\ ValidEvent(lastMsg) => (consumed /\ nanParams = {})

\* Events that fail before the data is looked at are dropped: no message,
\* text that is no JSON, JSON that is no object, another type, null data.
C13_UnreadableEventsDropped ==
  (/\ op = "handleMessage"
   /\ \/ lastMsg.raw \in {"none", "notJson"}
      \/ lastMsg.t # "object"
      \/ lastMsg.type # "faceTracking"
      \/ lastMsg.data.kind = "null")
    => ~consumed

\* No frame is sent twice, and none is both sent and still queued.
C14_AtMostOnce ==
  /\ \A i, j \in 1..Len(sent) : i < j => sent[i] < sent[j]
  /\ \A i \in 1..Len(sent), j \in 1..Len(mainQueue) : sent[i] < mainQueue[j]

\* C14: each captured frame reaches the web view at most once, and a frame
\* that is captured while another is still pending replaces it, so at most
\* one frame is ever pending.
C14_LatestWinsBounded ==
  /\ C14_AtMostOnce
  /\ Len(mainQueue) <= 1

\* C15: StartFaceTracking while IsTracking is true returns success, constructs
\* no session, starts no permission request and leaves the running session
\* and IsTracking as they are.
C15_StartWhileActiveIsNoOp ==
  [][(op' = "StartFaceTracking" /\ IsTracking) =>
       (/\ startReply' = StartSucceeded
        /\ sessionsCreated' = sessionsCreated
        /\ requesting' = requesting
        /\ arSession' = arSession
        /\ alive' = alive
        /\ IsTracking')]_vars

\* StartFaceTracking has just returned on a service that was tracking.
C15_Witness ==
  /\ op = "StartFaceTracking"
  /\ IsTracking
  /\ startReply = StartSucceeded
  /\ sessionsCreated = 1
  /\ alive = {1}

\* C16: on a device without face tracking (iOS without the capability, or
\* another platform) StartFaceTracking returns success false with a non-empty
\* error text, and IsTracking and GetFaceTrackingStatus stay false.
C16_UnsupportedDeviceFails ==
  platform \in {"iosUnsupported", "other"} =>
    /\ ~IsTracking
    /\ ~GetFaceTrackingStatus
    /\ requesting = 0
    /\ sessionsCreated = 0
    /\ op = "StartFaceTracking" =>
         (/\ startReply.replied
          /\ ~startReply.success
          /\ ~startReply.error.isNull
          /\ startReply.error.parts # <<>>
          /\ \A i \in 1..Len(startReply.error.parts) :
                startReply.error.parts[i] # "")

\* StartFaceTracking has returned on an iOS device without face tracking.
C16_Witness ==
  /\ platform = "iosUnsupported"
  /\ op = "StartFaceTracking"
  /\ faceTrackingService
  /\ startReply = StartFailed

\* C17: IsTracking turns true only in a start call that passed the capability
\* check, was granted the permission and ran the session without an
\* exception; a start call in which one of these fails returns failure and
\* leaves IsTracking as it was.
C17_ActiveOnlyAfterChecks ==
  [][/\ (~IsTracking /\ IsTracking') =>
          (/\ op' = "StartTrackingAsyncResumed"
           /\ IsSupported(platform)
           /\ lastAnswer'.granted
           /\ ~lastAnswer'.threw
           /\ startReply' = StartSucceeded)
     /\ (/\ op' = "StartTrackingAsyncResumed"
         /\ ~lastAnswer'.granted \/ lastAnswer'.threw) =>
          (/\ startReply' = StartFailed
           /\ IsTracking' = IsTracking)
     /\ (op' = "StartFaceTracking" /\ ~IsSupported(platform)) =>
          (/\ startReply' = StartFailed
           /\ ~IsTracking')]_vars

\* The permission was granted and running the session threw.
C17_Witness ==
  /\ op = "StartTrackingAsyncResumed"
  /\ lastAnswer = [granted |-> TRUE, threw |-> TRUE]
  /\ startReply = StartFailed
  /\ ~IsTracking
  /\ arSession # 0

\* Right after StopFaceTracking the service is not tracking and holds no
\* session, whatever the state before.
C18_StopClearsService ==
  op = "StopFaceTracking" => (~IsTracking /\ arSession = 0)

\* C18: once stop was called, and start not called again, the service stays
\* idle: IsTracking is false and no capture session is held or running, also
\* when the stop arrived while a start was awaiting the permission answer.
C18_StopEndsIdle ==
  stopRequested => (~IsTracking /\ arSession = 0 /\ alive = {})

\* C27: with start calls overlapping at the permission request, at most one
\* capture session is ever running, and right after a stop none is.
C27_OneSessionAtMost ==
  /\ Cardinality(alive) <= 1
  /\ op = "StopFaceTracking" => alive = {}

C29_ResetSurvivesOldDrag ==
  [][(op = "resetView" /\ op' = "pointerMove") =>
       (/\ viewOffset' = [x |-> props.offsetX, y |-> props.offsetY]
        /\ transformRef'.x = props.offsetX
        /\ transformRef'.y = props.offsetY)]_vars

\* The placement applyTransforms computes from the stored transform and the
\* render surface.
Projection(tr, scr) ==
  [scale |-> tr.scale, rotation |-> DegToRad(tr.rotation),
   x |-> scr.w \div 2 + tr.x, y |-> scr.h \div 2 + tr.y]

\* C23 for the viewer component: a resize leaves the stored transform alone
\* and places the model at the projection of it on the new surface; at an
\* unchanged surface size the model stays where it was.
C23_ViewerResizeIsProjection ==
  [][op' = "resize" =>
       (/\ transformRef' = transformRef
        /\ modelXf' = Projection(transformRef, screen')
        /\ screen' = screen => modelXf' = modelXf)]_vars

\* C23: a resize event at an unchanged surface size leaves the model where
\* the initial placement or the last projection put it, in every component
\* that has a resize handler (here the home page).
C23_ResizeIsIdempotentProjection ==
  [][(op' = "homeResize" /\ homeScreen' = homeScreen) =>
       homeModel' = homeModel]_vars

\* C30: the home page's callback computes the smoothing step of the viewer:
\* angles scaled by 2.5, the rest unscaled, all eight with the one factor.
C30_SameStepInEveryVariant ==
  [][(op' = "homeApplyFaceData" /\ homeModel.loaded) =>
       homeParams' = Smooth(homeParams, homeData', LerpFactorTenths)]_vars

\* C24: the viewport transform belongs to pan, zoom, reset and the base props.
\* A frame of the tracking stream leaves the stored transform, the view scale
\* and offset and the model's position, scale and rotation as they were, and
\* every change of the stored transform comes from a pointer move, a wheel
\* step, a reset or a change of the base props.
C24_TrackingLeavesTransform ==
  [][/\ op' = "updateFaceData" =>
          /\ transformRef' = transformRef
          /\ viewScale' = viewScale
          /\ viewOffset' = viewOffset
          /\ modelXf' = modelXf
     /\ transformRef' # transformRef =>
          op' \in {"pointerMove", "wheel", "resetView", "setBaseline"}]_vars

\* A frame with a head roll reached a loaded viewer whose view was zoomed
\* away from the baseline, and moved the smoothed state.
C24_Witness ==
  /\ op = "updateFaceData"
  /\ modelRef # 0
  /\ paramsRef.angleX # 0
  /\ transformRef.scale # props.scale
  /\ modelXf # NoXf

\* Every load that was started has run to its end.
AllLoadsFinished == \A t \in Tasks : loads[t] = NoTask \/ loads[t].pc = "done"

\* C26: after any sequence of model-URL changes, once every load has finished
\* and the load of the most recently requested URL succeeded, the current
\* handle is that load's model, it is the only model on the stage, and no
\* other model is still alive.
C26_LatestModelOnly ==
  (/\ mounted
   /\ appRef = "app"
   /\ nextTask > 1
   /\ AllLoadsFinished
   /\ cbs[nextTask - 1] = "onLoad")
  => /\ modelRef = nextTask - 1
     /\ stage = {nextTask - 1}
     /\ \A t \in Tasks \ {nextTask - 1} : handle[t] # "live"

\* C22: after extraction the eye openness of both eyes and the mouth openness
\* lie between 0 and 1, whatever the raw coefficients were, and a face
\* without blink and jaw coefficients gives open eyes and a closed mouth.
C22_ExtractedWithinUnitRange ==
  faceData.raised =>
    /\ 0 <= faceData.EyeOpenL /\ faceData.EyeOpenL <= Unit
    /\ 0 <= faceData.EyeOpenR /\ faceData.EyeOpenR <= Unit
    /\ 0 <= faceData.MouthOpen /\ faceData.MouthOpen <= Unit
    /\ ~anchor.BlendShapes["EyeBlinkLeft"].has => faceData.EyeOpenL = Unit
    /\ ~anchor.BlendShapes["EyeBlinkRight"].has => faceData.EyeOpenR = Unit
    /\ ~anchor.BlendShapes["JawOpen"].has => faceData.MouthOpen = 0

\* The defaults alone: absent coefficients count as 0.
C22_AbsentCoefficientsDefault ==
  faceData.raised =>
    /\ ~anchor.BlendShapes["EyeBlinkLeft"].has => faceData.EyeOpenL = Unit
    /\ ~anchor.BlendShapes["EyeBlinkRight"].has => faceData.EyeOpenR = Unit
    /\ ~anchor.BlendShapes["JawOpen"].has => faceData.MouthOpen = 0

\* C25: the angles extracted from the rotation matrix of a head pose away
\* from the gimbal-lock singularities are the pitch, yaw and roll of that
\* pose.
C25_EulerRoundTrip ==
  faceData.raised =>
    /\ faceData.AngleY = anchor.pose.pitch
    /\ faceData.AngleX = anchor.pose.yaw
    /\ faceData.AngleZ = anchor.pose.roll

\* A pose with all three angles away from zero went through the extraction.
C25_Witness ==
  /\ op = "ProcessFaceAnchor"
  /\ faceData.raised
  /\ anchor.pose.pitch = Angle(3, 4)
  /\ anchor.pose.yaw = Angle(-4, -3)
  /\ anchor.pose.roll = Angle(4, -3)
  /\ faceData.AngleZ = Angle(4, -3)

\* C21: under a stream that repeats one frame, every smoothed parameter
\* approaches its target geometrically: after n frames its distance from the
\* target is the distance at the start of the stream times (1 - factor)^n, up
\* to one unit of rounding per frame. From the default state, with factor 0.3
\* and a frame with mouthOpen 1, the mouth parameter is above 0.9 from the
\* seventh frame on.
C21_GeometricConvergence ==
  nstreams > 0 =>
    /\ \A k \in ParamFields :
         LET T == SinkTarget(steady.frame)[k]
             now == Abs(paramsRef[k] - T)
             closed == Decay(Abs(steady.start[k] - T), steady.factor, nsteady)
         IN Abs(now - closed) <= nsteady
    /\ (/\ steady.start.mouthOpen = 0
        /\ steady.frame.mouthOpen = Unit
        /\ steady.factor = 3
        /\ nsteady >= 7)
       => paramsRef.mouthOpen > 9 * (Unit \div 10)

\* Seven frames with mouthOpen 1 at factor 0.3 from the default state: the
\* mouth parameter is 1 - 0.7^7 = 0.9176457.
C21_Witness ==
  /\ op = "steadyFrame"
  /\ nsteady = 7
  /\ steady.start = DefaultParams
  /\ steady.factor = 3
  /\ steady.frame.mouthOpen = Unit
  /\ paramsRef.mouthOpen = Unit - 823543

\* C31: once StopFaceTracking has completed, and until StartFaceTracking is
\* called again, no frame reaches the web view (whose listener hands every
\* frame to the data consumer): frames that were queued for the main thread
\* before the stop are not sent afterwards.
C31_NoFrameAfterStop ==
  [][(stopRequested /\ ~IsTracking /\ alive = {}) => sent' = sent]_vars

\* C32: in the camera-based hook at most one detection loop is scheduled at
\* any time, and once stopTracking has returned onResult is not called again
\* before the next startTracking call.
C32_OneLoopAndQuietAfterStop ==
  [][/\ Cardinality(rafPending') <= 1
     /\ stopReturned => nresults' = nresults]_vars

\* The first half alone: at most one detection loop is scheduled.
C32_OneLoop == Cardinality(rafPending) <= 1

\* The second half alone: no onResult call after stopTracking returned.
C32_QuietAfterStop == [][stopReturned => nresults' = nresults]_vars

\* C33: on the home page the native source and the camera-based source are
\* never both tracking, whatever sequence of the two toggles is pressed and
\* also when stopping the other source fails.
C33_OneSourceAtATime == ~(isTracking /\ webIsTracking)

\* C34: whenever no command is in flight, the hook's isTracking is true
\* exactly when the native service is tracking, after any sequence of
\* starts, stops, failed commands and remounts of the hook.
C34_FlagAgreesWithService ==
  (hookPending = {} /\ requesting = 0)
    => (isTracking <=> GetFaceTrackingStatus)

\* C35: every model change request is answered: the viewer eventually calls
\* onLoad or onError for it, so the page's loading overlay is cleared. Stated
\* for the request that no later request supersedes.
C35_RequestAnswered ==
  (loads[MaxLoads].pc # "unused")
    ~> (cbs[MaxLoads] \in {"onLoad", "onError"})

\* C36: deleteLogFile and clearAllLogs return true only when the bridge
\* command completed successfully: when the result they get from apiService
\* carries an error, they do not return true.
C36_TrueOnlyOnSuccess ==
  (/\ call.pc = "idle"
   /\ call.cmd.name \in LogCommands
   /\ ~apiService(hwv, res).error.isNull)
    => LogHelperReturn # JsTrue

\* C37: a setting the user changed while loadSettings was awaiting its reads
\* is not lost: once the load and every write have finished, the store holds
\* the value the user set.
C37_UserValueSurvivesLoad ==
  (loadPc = "idle" /\ writes = <<>>)
    => \A k \in SettingKeys :
         setDuring[k].given => settings[k] = setDuring[k].v

====
